---- MODULE Spec2Model ----
(***************************************************************************)
(* The UDP telemetry decoder of src/tpg/index.ts as a state machine.       *)
(*                                                                         *)
(* State: the module-level scratch buffer (sharedBuffer and its two        *)
(* views), the accumulator of the running transformUDPLogToTimeSeries call *)
(* and the locals of the loop body for the row handled last.               *)
(*                                                                         *)
(* Representations                                                         *)
(*  - a byte array (a row's log, the Uint8Array over the buffer) is kept   *)
(*    sparse: its length and the map of the indices holding a non-zero     *)
(*    byte; every other index below the length reads 0.                    *)
(*  - a JavaScript string that the code builds or splits is the sequence   *)
(*    of its characters (one-character strings).                           *)
(*  - a 32-bit integer of the bitwise operators is an integer in           *)
(*    -2^31 .. 2^31-1; an unsigned 32-bit result (getUint32) is the pair   *)
(*    [hi, lo] of its 16-bit halves, hi * 65536 + lo.                      *)
(*  - a sample value is the pair of the number returned by the read and    *)
(*    the multiplier applied to it (their product is the emitted number).  *)
(***************************************************************************)
EXTENDS Integers, Sequences, FiniteSets, TLC

(***************************************************************************)
(* Program constants                                                       *)
(***************************************************************************)
UDP_HEADER_LENGTH == 16

MAX_UDP_MESSAGE_LENGTH == 2048

(***************************************************************************)
(* Bounds of the model                                                     *)
(***************************************************************************)
\* rows handled since the module was loaded (over all calls)
MaxRows == 2

(***************************************************************************)
(* Strings as character sequences                                          *)
(***************************************************************************)
Digits == <<"0", "1", "2", "3", "4", "5", "6", "7", "8", "9">>

HexDigits ==
    <<"0", "1", "2", "3", "4", "5", "6", "7", "8", "9", "a", "b", "c", "d", "e", "f">>

\* Number.prototype.toString() of a non-negative integer
RECURSIVE NumberToString(_)
NumberToString(n) ==
    IF n < 10 THEN <<Digits[n + 1]>>
    ELSE NumberToString(n \div 10) \o <<Digits[(n % 10) + 1]>>

\* byte.toString(16).padStart(2, "0"); toString(16) yields lower-case digits
ByteToHex(b) == <<HexDigits[(b \div 16) + 1], HexDigits[(b % 16) + 1]>>

DigitValue(c) == CHOOSE d \in 0..9 : Digits[d + 1] = c

\* Number(s) of a string of decimal digits
RECURSIVE StringToNumber(_)
StringToNumber(s) ==
    IF Len(s) = 0 THEN 0
    ELSE 10 * StringToNumber(SubSeq(s, 1, Len(s) - 1)) + DigitValue(s[Len(s)])

\* String.prototype.split(sep), from position `from`, scanning at p:
\* the separator is matched left to right, without overlap
RECURSIVE SplitFrom(_, _, _, _)
SplitFrom(s, sep, from, p) ==
    IF p + Len(sep) - 1 > Len(s) THEN <<SubSeq(s, from, Len(s))>>
    ELSE IF SubSeq(s, p, p + Len(sep) - 1) = sep
         THEN <<SubSeq(s, from, p - 1)>>
                  \o SplitFrom(s, sep, p + Len(sep), p + Len(sep))
         ELSE SplitFrom(s, sep, from, p + 1)

Split(s, sep) == SplitFrom(s, sep, 1, 1)

LabelSeparator == <<" ", "|", " ">>

(***************************************************************************)
(* 32-bit integers of the bitwise operators                                *)
(***************************************************************************)
MaxInt32 == 2147483647

MinInt32 == -2147483647 - 1

\* bit k (0..31) of the two's complement form of x
BitOf(x, k) == IF k = 31 THEN (IF x < 0 THEN 1 ELSE 0) ELSE (x \div (2 ^ k)) % 2

RECURSIVE SumBits(_, _)
SumBits(b, k) == IF k < 0 THEN 0 ELSE b[k] * (2 ^ k) + SumBits(b, k - 1)

\* the int32 whose bits are b[0..31]
FromBits(b) == IF b[31] = 1 THEN (SumBits(b, 30) - MaxInt32) - 1 ELSE SumBits(b, 30)

\* a | b
BitOr(a, b) ==
    FromBits([k \in 0..31 |-> IF BitOf(a, k) = 1 \/ BitOf(b, k) = 1 THEN 1 ELSE 0])

\* a & b
BitAnd(a, b) ==
    FromBits([k \in 0..31 |-> IF BitOf(a, k) = 1 /\ BitOf(b, k) = 1 THEN 1 ELSE 0])

\* a << n : the shift count is taken modulo 32
ShiftLeft(a, n) ==
    LET s == n % 32
    IN  FromBits([k \in 0..31 |-> IF k >= s THEN BitOf(a, k - s) ELSE 0])

\* a >> n : sign-propagating, the shift count is taken modulo 32
ShiftRight(a, n) ==
    LET s == n % 32
    IN  FromBits([k \in 0..31 |-> IF k + s <= 31 THEN BitOf(a, k + s) ELSE BitOf(a, 31)])

\* (1 << num) - 1 as the right operand of & : the subtraction is done on
\* doubles and & converts back to int32, so -2^31 - 1 becomes 2^31 - 1
BitMask(num) ==
    LET p == ShiftLeft(1, num)
    IN  IF p = MinInt32 THEN MaxInt32 ELSE p - 1

\* function getBits(value, start, num)
getBits(value, start, num) == BitAnd(ShiftRight(value, start), BitMask(num))

\* a number as the pair of its 16-bit halves: hi * 65536 + lo
NumOf(n) == [hi |-> n \div 65536, lo |-> n % 65536]

\* x * 1000 on the halves (hi may leave 16 bits)
Mul1000(x) ==
    LET l == x.lo * 1000
    IN  [hi |-> x.hi * 1000 + l \div 65536, lo |-> l % 65536]

\* y / 1000 on the halves
Div1000(y) ==
    LET t == (y.hi % 1000) * 65536 + y.lo
    IN  [hi |-> y.hi \div 1000, lo |-> t \div 1000]

\* Math.round(x * 1000) / 1000 of an integer x: x * 1000 is an integer that a
\* double holds exactly (|x| < 2^32), so Math.round returns it unchanged
Round3(x) == Div1000(Mul1000(x))

(***************************************************************************)
(* Byte arrays                                                             *)
(***************************************************************************)
\* the array of the given bytes (a sequence), kept sparse
Bytes(seq) ==
    [length |-> Len(seq),
     nz |-> [i \in {j \in 0..(Len(seq) - 1) : seq[j + 1] # 0} |-> seq[i + 1]]]

\* array a padded with zero bytes up to length n, and byte b stored last
PadTo(a, n, b) ==
    [length |-> n,
     nz |-> [i \in DOMAIN a.nz \cup (IF b # 0 THEN {n - 1} ELSE {}) |->
                IF i \in DOMAIN a.nz THEN a.nz[i] ELSE b]]

\* a[i] of an index below the length
ByteAt(a, i) == IF i \in DOMAIN a.nz THEN a.nz[i] ELSE 0

\* new ArrayBuffer(MAX_UDP_MESSAGE_LENGTH): zero-filled
sharedBuffer == [length |-> MAX_UDP_MESSAGE_LENGTH, nz |-> <<>>]

\* sharedUint8View.set(rawMessage): the bytes of rawMessage replace the
\* first rawMessage.length bytes, the rest of the buffer keeps its content;
\* a source longer than the target is a RangeError
SetFits(view, rawMessage) == rawMessage.length <= view.length

TypedArraySet(view, rawMessage) ==
    [length |-> view.length,
     nz |-> [i \in {j \in DOMAIN view.nz : j >= rawMessage.length}
                      \cup DOMAIN rawMessage.nz |->
                IF i < rawMessage.length THEN rawMessage.nz[i] ELSE view.nz[i]]]

\* DataView reads throw a RangeError outside the buffer
InView(view, off, width) == off >= 0 /\ off + width <= view.length

getUint8(view, off) == ByteAt(view, off)

\* getUint16(off, true)
getUint16(view, off) == ByteAt(view, off) + 256 * ByteAt(view, off + 1)

\* getUint32 read without the little-endian flag
getUint32_BigEndian(view, off) ==
    [hi |-> ByteAt(view, off + 1) + 256 * ByteAt(view, off),
     lo |-> ByteAt(view, off + 3) + 256 * ByteAt(view, off + 2)]

\* getUint32(off, true), as its 16-bit halves
getUint32(view, off) ==
    [hi |-> ByteAt(view, off + 2) + 256 * ByteAt(view, off + 3),
     lo |-> ByteAt(view, off) + 256 * ByteAt(view, off + 1)]

(***************************************************************************)
(* Device table                                                            *)
(***************************************************************************)
deviceIds ==
    << [name |-> <<"m", "a", "i", "n", "P", "L", "C">>, id |-> 0],
       [name |-> <<"m", "o", "w", "e", "r">>, id |-> 1],
       [name |-> <<"s", "p", "o", "t", "S", "p", "r", "a", "y", "e", "r">>, id |-> 2],
       [name |-> <<"o", "f", "f", "s", "e", "t", "M", "o", "w", "e", "r">>, id |-> 3],
       [name |-> <<"b", "l", "a", "n", "k", "e", "t", "S", "p", "r", "a", "y", "e", "r">>,
        id |-> 4],
       [name |-> <<"s", "p", "r", "e", "a", "d", "e", "r">>, id |-> 5],
       [name |-> <<"s", "w", "a", "r", "m", "V", "i", "e", "w">>, id |-> 256],
       [name |-> <<"d", "o", "c", "k">>, id |-> 257],
       [name |-> <<"s", "w", "a", "r", "m", "b", "o", "t">>, id |-> 258],
       [name |-> <<"p", "a", "r", "a", "m", "S", "y", "n", "c", "e", "r">>, id |-> 259],
       [name |-> <<"t", "o", "o", "l", "i", "n", "g">>, id |-> 260],
       [name |-> <<"i", "n", "v", "a", "l", "i", "d">>, id |-> 65535] >>

\* the reverse map built by the for..in loop: a later key overwrites
deviceIdToNameMap ==
    [id \in {deviceIds[k].id : k \in DOMAIN deviceIds} |->
        LET last == CHOOSE k \in DOMAIN deviceIds :
                        /\ deviceIds[k].id = id
                        /\ \A j \in DOMAIN deviceIds : deviceIds[j].id = id => j <= k
        IN  deviceIds[last].name]

InvalidName == <<"i", "n", "v", "a", "l", "i", "d">>

DockName == <<"d", "o", "c", "k">>

SwarmbotName == <<"s", "w", "a", "r", "m", "b", "o", "t">>

\* the lookup without the "invalid" fallback: an unknown id yields no name
DeviceNameOf_NoFallback(deviceId) ==
    IF deviceId \in DOMAIN deviceIdToNameMap THEN deviceIdToNameMap[deviceId] ELSE <<>>

\* deviceIdToNameMap[deviceId] || "invalid"
DeviceNameOf(deviceId) ==
    IF deviceId \in DOMAIN deviceIdToNameMap /\ deviceIdToNameMap[deviceId] # <<>>
    THEN deviceIdToNameMap[deviceId]
    ELSE InvalidName

\* the section picked by device
SectionOf(deviceName) ==
    IF deviceName = DockName THEN "Dock Messages"
    ELSE IF deviceName = SwarmbotName THEN "SwarmBot Messages"
    ELSE "Other Messages"

(***************************************************************************)
(* Field descriptors (UdpFieldSchema) and the descriptor tree               *)
(***************************************************************************)
One == [num |-> 1, den |-> 1]

NoBits == [present |-> FALSE, items |-> <<>>]

\* a field read through `type`
ScalarField(label, bytes, type, multiplier) ==
    [label |-> label, bytes |-> bytes, type |-> type, unit |-> "",
     use_enum |-> 0, enum |-> FALSE, use_bits |-> 0, bits |-> NoBits,
     multiplier |-> multiplier, dependent_on |-> <<>>]

\* a field read through `bits`
BitField(label, bytes, bits, multiplier) ==
    [label |-> label, bytes |-> bytes, type |-> "null", unit |-> "",
     use_enum |-> 0, enum |-> FALSE, use_bits |-> 1,
     bits |-> [present |-> TRUE, items |-> bits],
     multiplier |-> multiplier, dependent_on |-> <<>>]

BitDef(name, start, num) == [Name |-> name, Start |-> start, Num |-> num]

\* the field with dependent_on: { byte, bit }
DependentOn(f, byte, bit) == [f EXCEPT !.dependent_on = <<[byte |-> byte, bit |-> bit]>>]

DockPrefix7 ==
    << ScalarField(<<"S", "p", "e", "e", "d">>, <<0, 1>>, "uint16_t", One),
       BitField(<<"F", "l", "a", "g", "s">>, <<2>>,
                <<BitDef(<<"l", "o">>, 2, 3), BitDef(<<"h", "i">>, 5, 3)>>, One),
       DependentOn(ScalarField(<<"O", "n", " ", "|", " ", "O", "f", "f">>, <<3>>,
                               "uint8_t", One), 2, 0),
       ScalarField(<<"M", "e", "t", "a">>, <<0>>, "null", One),
       ScalarField(<<"G", "a", "i", "n">>, <<3>>, "uint8_t", [num |-> 1, den |-> 10]),
       ScalarField(<<"S", "p", "l", "i", "t">>, <<0, 2>>, "uint16_t", One) >>

DockMessage1795 ==
    << ScalarField(<<"E", "x", "a", "c", "t">>, <<0>>, "uint8_t", One) >>

DockMessage2 ==
    << ScalarField(<<"C", "o", "u", "n", "t", "e", "r">>, <<0, 1, 2, 3>>, "uint32_t", One),
       BitField(<<"W", "o", "r", "d">>, <<0, 1, 2, 3>>,
                <<BitDef(<<"a", "l", "l">>, 0, 32), BitDef(<<"m", "i", "d">>, 4, 8),
                  BitDef(<<"t", "o", "p">>, 24, 8)>>, One),
       ScalarField(<<"W", "i", "d", "e">>, <<0>>, "uint32_t", One),
       BitField(<<"L", "o", "n", "g">>, <<0, 1, 2, 3, 4>>,
                <<BitDef(<<"b", "0">>, 0, 8)>>, One) >>

SwarmbotPrefix16 ==
    << DependentOn(BitField(<<"D", "e", "c", " ", "|", " ", "V", "o", "l", "t">>, <<0>>,
                            <<BitDef(<<"a">>, 0, 4), BitDef(<<"b">>, 4, 4)>>, One), 1, 7),
       DependentOn(ScalarField(<<"P", "l", "a", "i", "n">>, <<0>>, "uint8_t", One), 1, 7),
       DependentOn(ScalarField(<<"A", " ", "|", " ", "B", " ", "|", " ", "C">>, <<1>>,
                               "uint8_t", One), 1, 0),
       DependentOn(ScalarField(<<"F", "a", "r", " ", "|", " ", "N", "e", "a", "r">>, <<0>>,
                               "bool", One), 40, 0),
       BitField(<<"N", "o", "n", "e">>, <<>>, <<BitDef(<<"z">>, 0, 1)>>, One) >>

SwarmbotMessage2 ==
    << ScalarField(<<"T", "e", "m", "p">>, <<0>>, "uint8_t", One),
       ScalarField(<<"T", "o", "t", "a", "l">>, <<0, 1, 2, 3, 4, 5, 6, 7>>, "uint64_t", One) >>

OtherPrefix7 ==
    << ScalarField(<<"A", "u", "x">>, <<0>>, "uint8_t", One),
       DependentOn(ScalarField(<<"H", "i", " ", "|", " ", "L", "o">>, <<0, 1>>,
                               "uint16_t", One), 0, 0),
       ScalarField(<<"F", "i", "n", "e">>, <<0>>, "uint8_t", [num |-> 1, den |-> 2000]),
       DependentOn(ScalarField(<<"X", " ", "|", " ", "Y">>, <<0>>, "uint8_t", One), 0, 8) >>

\* a descriptor tree of the shape of UdpConfigSchema (the tree the module
\* imports is data, not part of the decoder)
udpConfig ==
    [s \in {"Dock Messages", "SwarmBot Messages", "Other Messages"} |->
        CASE s = "Dock Messages" ->
               [Prefixes |-> [k \in {<<"7">>} |-> [Fields |-> DockPrefix7]],
                Messages |-> [k \in {<<"1", "7", "9", "5">>, <<"2">>} |->
                                 [Fields |-> IF k = <<"2">> THEN DockMessage2
                                             ELSE DockMessage1795]]]
          [] s = "SwarmBot Messages" ->
               [Prefixes |-> [k \in {<<"1", "6">>} |-> [Fields |-> SwarmbotPrefix16]],
                Messages |-> [k \in {<<"2">>} |-> [Fields |-> SwarmbotMessage2]]]
          [] OTHER ->
               [Prefixes |-> [k \in {<<"7">>} |-> [Fields |-> OtherPrefix7]],
                Messages |-> [k \in {} |-> [Fields |-> <<>>]]]]

\* UdpConfigSchema: the three sections, each with Prefixes and Messages,
\* the Messages of "Other Messages" empty
UdpConfigSchema(config) ==
    /\ DOMAIN config = {"Dock Messages", "SwarmBot Messages", "Other Messages"}
    /\ \A s \in DOMAIN config : DOMAIN config[s] = {"Prefixes", "Messages"}
    /\ DOMAIN config["Other Messages"].Messages = {}

\* trees that UdpConfigSchema rejects: a section missing, a section without
\* Prefixes, an entry under the Messages of "Other Messages"
ConfigWithoutOther ==
    [s \in {"Dock Messages", "SwarmBot Messages"} |-> udpConfig[s]]

ConfigWithoutPrefixes ==
    [udpConfig EXCEPT !["SwarmBot Messages"] =
        [Messages |-> udpConfig["SwarmBot Messages"].Messages]]

ConfigOtherWithMessages ==
    [udpConfig EXCEPT !["Other Messages"] =
        [Prefixes |-> udpConfig["Other Messages"].Prefixes,
         Messages |-> [k \in {<<"2">>} |-> [Fields |-> DockMessage1795]]]]

Configs == {udpConfig, ConfigWithoutOther, ConfigWithoutPrefixes, ConfigOtherWithMessages}

(***************************************************************************)
(* Helpers of the decoder                                                  *)
(***************************************************************************)
\* getMessageIdHex(view): high byte then low byte, two hex digits each
getMessageIdHex(view) ==
    LET low == getUint8(view, 6)
        high == getUint8(view, 7)
    IN  ByteToHex(high) \o ByteToHex(low)

\* the dependency bit read without the bounds test
getDependentBit_Unchecked(view, rawMessageLength, dep) ==
    LET abs == UDP_HEADER_LENGTH + dep.byte
    IN  IF ~InView(view, abs, 1)
        THEN [threw |-> TRUE, null |-> FALSE, bit |-> 0]
        ELSE [threw |-> FALSE, null |-> FALSE,
              bit |-> BitAnd(ShiftRight(getUint8(view, abs), dep.bit), 1)]

\* getDependentBit(view, rawMessageLength, dep): null when the byte is not
\* in the row or the bit index is not in 0..7
getDependentBit(view, rawMessageLength, dep) ==
    LET abs == UDP_HEADER_LENGTH + dep.byte
    IN  IF abs >= rawMessageLength \/ dep.bit < 0 \/ dep.bit > 7
        THEN [threw |-> FALSE, null |-> TRUE, bit |-> 0]
        ELSE IF ~InView(view, abs, 1)
        THEN [threw |-> TRUE, null |-> FALSE, bit |-> 0]
        ELSE [threw |-> FALSE, null |-> FALSE,
              bit |-> BitAnd(ShiftRight(getUint8(view, abs), dep.bit), 1)]

\* value |= getUint8(absByteOffsets[i]) << (8 * i), for i from `i` (0-based)
\* below `limit`
RECURSIVE AccumulateBytes(_, _, _, _, _)
AccumulateBytes(view, absByteOffsets, i, limit, value) ==
    IF i >= Len(absByteOffsets) \/ i >= limit THEN [threw |-> FALSE, value |-> value]
    ELSE IF ~InView(view, absByteOffsets[i + 1], 1) THEN [threw |-> TRUE, value |-> value]
    ELSE AccumulateBytes(view, absByteOffsets, i + 1, limit,
             BitOr(value, ShiftLeft(getUint8(view, absByteOffsets[i + 1]), 8 * i)))

\* getNumericValueFromBytes(dataView, absByteOffsets, dataType); the value
\* is returned as 16-bit halves.  (No descriptor of the model has type
\* "float"; the default branch cannot be reached with a DataType.)
getNumericValueFromBytes(dataView, absByteOffsets, dataType) ==
    LET firstByteAbsOffset == IF Len(absByteOffsets) > 0 THEN absByteOffsets[1] ELSE 0
        Ok(v) == [threw |-> FALSE, value |-> Round3(v)]
        RangeError == [threw |-> TRUE, value |-> NumOf(0)]
    IN  CASE dataType = "uint8_t" ->
               IF InView(dataView, firstByteAbsOffset, 1)
               THEN Ok(NumOf(getUint8(dataView, firstByteAbsOffset)))
               ELSE RangeError
          [] dataType = "uint16_t" ->
               IF InView(dataView, firstByteAbsOffset, 2)
               THEN Ok(NumOf(getUint16(dataView, firstByteAbsOffset)))
               ELSE RangeError
          [] dataType = "uint32_t" ->
               IF InView(dataView, firstByteAbsOffset, 4)
               THEN Ok(getUint32(dataView, firstByteAbsOffset))
               ELSE RangeError
          [] dataType = "bool" ->
               IF InView(dataView, firstByteAbsOffset, 1)
               THEN Ok(NumOf(IF getUint8(dataView, firstByteAbsOffset) = 1 THEN 1 ELSE 0))
               ELSE RangeError
          [] dataType = "uint64_t" ->
               LET acc == AccumulateBytes(dataView, absByteOffsets, 0, 8, 0)
               IN  IF acc.threw THEN RangeError ELSE Ok(NumOf(acc.value))
          [] dataType = "null" -> RangeError

\* the two parts taken the wrong way round
ResolveLabel_Swapped(label, bit) ==
    LET parts == Split(label, LabelSeparator)
    IN  IF Len(parts) = 2 THEN (IF bit # 0 THEN parts[2] ELSE parts[1]) ELSE label

\* the label picked by the dependency bit: "PartA | PartB" -> PartA when the
\* bit is set, PartB when it is clear; any other label is kept
ResolveLabel(label, bit) ==
    LET parts == Split(label, LabelSeparator)
    IN  IF Len(parts) = 2 THEN (IF bit # 0 THEN parts[1] ELSE parts[2]) ELSE label

\* the bit-field loop that passes over a byte outside the row instead of
\* throwing
RECURSIVE CombineBytes_SkipsByte(_, _, _, _, _)
CombineBytes_SkipsByte(dataView, rawMessageLength, bytes, i, combinedValue) ==
    IF i >= Len(bytes) THEN [threw |-> FALSE, value |-> combinedValue]
    ELSE LET bitFieldOffset == UDP_HEADER_LENGTH + bytes[i + 1]
         IN  IF bitFieldOffset >= rawMessageLength \/ ~InView(dataView, bitFieldOffset, 1)
             THEN CombineBytes_SkipsByte(dataView, rawMessageLength, bytes, i + 1,
                                         combinedValue)
             ELSE CombineBytes_SkipsByte(dataView, rawMessageLength, bytes, i + 1,
                      BitOr(combinedValue,
                            ShiftLeft(getUint8(dataView, bitFieldOffset), 8 * i)))

\* the bit-field loop over `bytes`: a byte outside the row throws
RECURSIVE CombineBytes(_, _, _, _, _)
CombineBytes(dataView, rawMessageLength, bytes, i, combinedValue) ==
    IF i >= Len(bytes) THEN [threw |-> FALSE, value |-> combinedValue]
    ELSE LET bitFieldOffset == UDP_HEADER_LENGTH + bytes[i + 1]
         IN  IF bitFieldOffset >= rawMessageLength \/ ~InView(dataView, bitFieldOffset, 1)
             THEN [threw |-> TRUE, value |-> combinedValue]
             ELSE CombineBytes(dataView, rawMessageLength, bytes, i + 1,
                      BitOr(combinedValue,
                            ShiftLeft(getUint8(dataView, bitFieldOffset), 8 * i)))

\* value *= multiplier unless the multiplier is 1.0: the pair stands for the
\* product
Scaled(value, multiplier) ==
    [n |-> value, times |-> IF multiplier # One THEN multiplier ELSE One]

\* the bit path's label without the field label
BitLabel_NoFieldLabel(messageIdStr, finalLabel, name) == messageIdStr \o <<"_">> \o name

\* the label of a sample of the bit path
BitLabel(messageIdStr, finalLabel, name) ==
    messageIdStr \o <<"_">> \o finalLabel \o <<"_">> \o name

\* the samples pushed by the bit path for a combined value
BitSamples(f, combinedValue, finalLabel, ts, messageIdStr, deviceName, messageIdHex) ==
    [j \in 1..Len(f.bits.items) |->
        LET bitConfig == f.bits.items[j]
            bitValue == getBits(combinedValue, bitConfig.Start, bitConfig.Num)
        IN  [label |-> BitLabel(messageIdStr, finalLabel, bitConfig.Name),
             unit |-> f.unit,
             isEnum |-> FALSE,
             series |-> << <<ts, Scaled(NumOf(bitValue), f.multiplier)>> >>,
             id |-> deviceName \o <<"_">> \o messageIdHex \o <<"_">> \o finalLabel
                        \o <<"_">> \o bitConfig.Name,
             sender |-> deviceName]]

\* the sample pushed by the standard path
ScalarSample(f, value, finalLabel, ts, deviceName, messageIdHex) ==
    [label |-> finalLabel,
     unit |-> f.unit,
     isEnum |-> (f.use_enum = 1 /\ f.enum),
     series |-> << <<ts, Scaled(value, f.multiplier)>> >>,
     id |-> deviceName \o <<"_">> \o messageIdHex \o <<"_">> \o finalLabel,
     sender |-> deviceName]

\* the standard path's bounds test on the absolute offsets
OutOfBounds(absByteOffsets, rawMessageLength) ==
    \/ absByteOffsets[1] + Len(absByteOffsets) > rawMessageLength
    \/ \E k \in DOMAIN absByteOffsets : absByteOffsets[k] >= rawMessageLength

\* the body of the loop of parseFieldsFromConfig for one field: the samples
\* it pushes, and whether it left through the catch block
DecodeField(dataView, rawMessageLength, f, ts, messageIdStr, deviceName, messageIdHex) ==
    LET dep == IF f.dependent_on # <<>>
               THEN getDependentBit(dataView, rawMessageLength, f.dependent_on[1])
               ELSE [threw |-> FALSE, null |-> TRUE, bit |-> 0]
        finalLabel == IF dep.null THEN f.label ELSE ResolveLabel(f.label, dep.bit)
        None == [threw |-> FALSE, samples |-> <<>>]
        Caught == [threw |-> TRUE, samples |-> <<>>]
    IN  IF dep.threw THEN Caught
        ELSE IF f.use_bits = 1 /\ f.bits.present
        THEN LET c == CombineBytes(dataView, rawMessageLength, f.bytes, 0, 0)
             IN  IF c.threw THEN Caught
                 ELSE [threw |-> FALSE,
                       samples |-> BitSamples(f, c.value, finalLabel, ts, messageIdStr,
                                              deviceName, messageIdHex)]
        ELSE IF f.type # "null"
        THEN LET absByteOffsets == [k \in DOMAIN f.bytes |-> UDP_HEADER_LENGTH + f.bytes[k]]
             IN  IF Len(f.bytes) = 0 THEN None
                 ELSE IF OutOfBounds(absByteOffsets, rawMessageLength) THEN None
                 ELSE LET v == getNumericValueFromBytes(dataView, absByteOffsets, f.type)
                      IN  IF v.threw THEN Caught
                          ELSE [threw |-> FALSE,
                                samples |-> <<ScalarSample(f, v.value, finalLabel, ts,
                                                           deviceName, messageIdHex)>>]
        ELSE None

\* parseFieldsFromConfig from field k on: an error of a field is caught
\* inside the loop and the loop goes on with the next field
RECURSIVE ParseFrom(_, _, _, _, _, _, _, _)
ParseFrom(dataView, rawMessageLength, fieldConfigs, ts, messageIdStr, deviceName, messageIdHex, k) ==
    IF k > Len(fieldConfigs) THEN <<>>
    ELSE DecodeField(dataView, rawMessageLength, fieldConfigs[k], ts, messageIdStr,
                     deviceName, messageIdHex).samples
             \o ParseFrom(dataView, rawMessageLength, fieldConfigs, ts, messageIdStr,
                          deviceName, messageIdHex, k + 1)

\* the try/catch around the loop instead of inside it: the first error ends
\* the loop, the fields after it are not decoded
RECURSIVE ParseUntilError(_, _, _, _, _, _, _, _)
ParseUntilError(dataView, rawMessageLength, fieldConfigs, ts, messageIdStr, deviceName, messageIdHex, k) ==
    IF k > Len(fieldConfigs) THEN <<>>
    ELSE LET d == DecodeField(dataView, rawMessageLength, fieldConfigs[k], ts,
                              messageIdStr, deviceName, messageIdHex)
         IN  IF d.threw THEN d.samples
             ELSE d.samples \o ParseUntilError(dataView, rawMessageLength, fieldConfigs,
                                               ts, messageIdStr, deviceName,
                                               messageIdHex, k + 1)

parseFieldsFromConfig_CatchOutsideLoop(dataView, rawMessageLength, fieldConfigs, ts, messageIdStr, deviceName, messageIdHex) ==
    [threw |-> FALSE,
     samples |-> ParseUntilError(dataView, rawMessageLength, fieldConfigs, ts,
                                 messageIdStr, deviceName, messageIdHex, 1)]

\* without the try/catch: the first error of a field leaves the function
parseFieldsFromConfig_NoCatch(dataView, rawMessageLength, fieldConfigs, ts, messageIdStr, deviceName, messageIdHex) ==
    [threw |-> \E k \in DOMAIN fieldConfigs :
                  DecodeField(dataView, rawMessageLength, fieldConfigs[k], ts,
                              messageIdStr, deviceName, messageIdHex).threw,
     samples |-> ParseUntilError(dataView, rawMessageLength, fieldConfigs, ts,
                                 messageIdStr, deviceName, messageIdHex, 1)]

\* parseFieldsFromConfig: what it appends to outArray, and whether an error
\* leaves the function
parseFieldsFromConfig(dataView, rawMessageLength, fieldConfigs, ts, messageIdStr, deviceName, messageIdHex) ==
    [threw |-> FALSE,
     samples |-> ParseFrom(dataView, rawMessageLength, fieldConfigs, ts, messageIdStr,
                           deviceName, messageIdHex, 1)]

(***************************************************************************)
(* One iteration of the loop of transformUDPLogToTimeSeries                *)
(***************************************************************************)
\* the lookups in the other order: the exact identifier first
ResolveMessage_ExactFirst(configSection, messageIdLE, deviceName, messageIdHex) ==
    LET messageIdHighByte == BitAnd(ShiftRight(messageIdLE, 8), 255)
        prefixStr == NumberToString(messageIdHighByte)
        messageIdDecStr == NumberToString(messageIdLE)
    IN  IF messageIdDecStr \in DOMAIN configSection.Messages
        THEN [found |-> TRUE,
              Fields |-> configSection.Messages[messageIdDecStr].Fields,
              messageIdStr |-> messageIdDecStr]
        ELSE IF prefixStr \in DOMAIN configSection.Prefixes
        THEN [found |-> TRUE,
              Fields |-> configSection.Prefixes[prefixStr].Fields,
              messageIdStr |-> deviceName \o <<":">> \o messageIdHex]
        ELSE [found |-> FALSE, Fields |-> <<>>, messageIdStr |-> messageIdDecStr]

\* the descriptor picked for a message identifier in a section: the prefix
\* entry of the high byte first, else the entry of the decimal identifier
ResolveMessage(configSection, messageIdLE, deviceName, messageIdHex) ==
    LET messageIdHighByte == BitAnd(ShiftRight(messageIdLE, 8), 255)
        prefixStr == NumberToString(messageIdHighByte)
        messageIdDecStr == NumberToString(messageIdLE)
    IN  IF prefixStr \in DOMAIN configSection.Prefixes
        THEN [found |-> TRUE,
              Fields |-> configSection.Prefixes[prefixStr].Fields,
              messageIdStr |-> deviceName \o <<":">> \o messageIdHex]
        ELSE IF messageIdDecStr \in DOMAIN configSection.Messages
        THEN [found |-> TRUE,
              Fields |-> configSection.Messages[messageIdDecStr].Fields,
              messageIdStr |-> messageIdDecStr]
        ELSE [found |-> FALSE, Fields |-> <<>>, messageIdStr |-> messageIdDecStr]

\* the gate with >= for the upper limit: a row of the maximum length is skipped
LengthRejected_AtMaximum(currentMessageLength) ==
    \/ currentMessageLength >= MAX_UDP_MESSAGE_LENGTH
    \/ currentMessageLength < UDP_HEADER_LENGTH

\* the length gate: TRUE when the row is skipped
LengthRejected(currentMessageLength) ==
    \/ currentMessageLength > MAX_UDP_MESSAGE_LENGTH
    \/ currentMessageLength < UDP_HEADER_LENGTH

\* the locals of an iteration that ends before the header is read
Skipped(view, why) ==
    [view |-> view, status |-> why, threw |-> FALSE, deviceName |-> <<>>,
     sectionName |-> "", messageIdStr |-> <<>>, messageIdHex |-> <<>>,
     fieldConfigs |-> <<>>, rowOut |-> <<>>]

\* the loop body for one row on the buffer `view`: the buffer afterwards,
\* the locals, and the samples appended to tempFieldsForMessage
LoopBodyOn(config, view, r) ==
    IF ~r.isArray THEN Skipped(view, "norow")
    ELSE IF LengthRejected(r.log.length) THEN Skipped(view, "rejected")
    ELSE IF ~SetFits(view, r.log) THEN [Skipped(view, "error") EXCEPT !.threw = TRUE]
    ELSE
    LET copied == TypedArraySet(view, r.log)
        messageIdLE == getUint16(copied, 6)
        deviceId == getUint16(copied, 0)
        devName == DeviceNameOf(deviceId)
        hex == getMessageIdHex(copied)
        section == SectionOf(devName)
        \* configSection.Prefixes[prefixStr] is a TypeError when the section
        \* is undefined, or has no Prefixes
        typeError == \/ section \notin DOMAIN config
                     \/ "Prefixes" \notin DOMAIN config[section]
        m == IF typeError THEN [found |-> FALSE, Fields |-> <<>>, messageIdStr |-> <<>>]
             ELSE ResolveMessage(config[section], messageIdLE, devName, hex)
        parsed == IF typeError THEN [threw |-> TRUE, samples |-> <<>>]
                  ELSE IF m.found
                  THEN parseFieldsFromConfig(copied, r.log.length, m.Fields,
                                             StringToNumber(r.date), m.messageIdStr,
                                             devName, hex)
                  ELSE [threw |-> FALSE, samples |-> <<>>]
    IN  [view |-> copied,
         status |-> IF parsed.threw THEN "error"
                    ELSE IF m.found THEN "decoded" ELSE "unresolved",
         threw |-> parsed.threw,
         deviceName |-> devName,
         sectionName |-> section,
         messageIdStr |-> m.messageIdStr,
         messageIdHex |-> hex,
         fieldConfigs |-> m.Fields,
         rowOut |-> parsed.samples]

\* the loop body on the tree the module imports
LoopBody(view, r) == LoopBodyOn(udpConfig, view, r)

(***************************************************************************)
(* The catalog of parseUDPLogToResponse                                    *)
(***************************************************************************)
\* a Map or a Set in insertion order is the sequence of its keys
SetAdd(seq, x) == IF \E k \in DOMAIN seq : seq[k] = x THEN seq ELSE Append(seq, x)

\* the key built from the first device component only
MessageIdOf_DeviceOnly(parts) == parts[1]

\* `${parts[0]}_${parts[1]}`
MessageIdOf(parts) == parts[1] \o <<"_">> \o parts[2]

\* one pass of the loop over parsed: uniqueMessagesMap afterwards
AddToMap(map, message) ==
    LET parts == Split(message.id, <<"_">>)
    IN  IF Len(parts) >= 2
        THEN LET messageId == MessageIdOf(parts)
                 has == \E k \in DOMAIN map : map[k].id = messageId
                 withEntry == IF has THEN map
                              ELSE Append(map, [id |-> messageId,
                                                sender |-> message.sender,
                                                fields |-> <<>>])
                 at == CHOOSE k \in DOMAIN withEntry : withEntry[k].id = messageId
             IN  [withEntry EXCEPT ![at].fields = SetAdd(@, message.label)]
        ELSE map

RECURSIVE UniqueMessagesMap(_, _)
UniqueMessagesMap(parsed, n) ==
    IF n = 0 THEN <<>> ELSE AddToMap(UniqueMessagesMap(parsed, n - 1), parsed[n])

\* unique_messages of the response for the samples `parsed`
parseUDPLogToResponse(parsed) == UniqueMessagesMap(parsed, Len(parsed))

(***************************************************************************)
(* Input rows                                                              *)
(***************************************************************************)
\* the 16 header bytes: device id at 0..1 and message id at 6..7, little-endian
Header(deviceId, messageId) ==
    <<deviceId % 256, deviceId \div 256, 0, 0, 0, 0, messageId % 256, messageId \div 256,
      0, 0, 0, 0, 0, 0, 0, 0>>

Row(date, bytes) == [isArray |-> TRUE, date |-> date, log |-> bytes]

Date1 == <<"1", "0", "0", "0">>

Date2 == <<"2", "5", "0", "0">>

\* a row whose log is not an array
NoLog == [isArray |-> FALSE, date |-> Date1, log |-> Bytes(<<>>)]

DockRows ==
    { Row(Date1, Bytes(Header(257, 1795) \o <<52, 18, 180, 1>>)),
      Row(Date2, Bytes(Header(257, 1795) \o <<255, 255, 181, 7>>)),
      Row(Date1, Bytes(Header(257, 1795) \o <<52, 18>>)),
      Row(Date1, Bytes(Header(257, 1795))),
      Row(Date1, Bytes(Header(257, 2) \o <<52, 18, 0, 0, 1>>)),
      Row(Date2, Bytes(Header(257, 2) \o <<255, 255, 255, 255, 255>>)),
      Row(Date1, Bytes(Header(257, 2) \o <<7>>)),
      Row(Date1, Bytes(Header(257, 2) \o <<1, 2, 3, 128>>)),
      Row(Date1, Bytes(Header(257, 2307) \o <<9, 9, 9, 9, 9, 9>>)),
      Row(Date1, Bytes(Header(257, 2307))) }

SwarmbotRows ==
    { Row(Date1, Bytes(Header(258, 4097) \o <<171, 128>>)),
      Row(Date2, Bytes(Header(258, 4097) \o <<171, 1>>)),
      Row(Date1, Bytes(Header(258, 4097) \o <<5>>)),
      Row(Date1, Bytes(Header(258, 2) \o <<42, 0, 0, 0, 1, 0, 0, 0>>)) }

OtherRows ==
    { Row(Date1, Bytes(Header(1, 1793) \o <<53, 18>>)),
      Row(Date1, Bytes(Header(4660, 1792) \o <<52, 18>>)),
      Row(Date2, Bytes(Header(65535, 1794) \o <<1>>)),
      Row(Date1, Bytes(Header(1, 2) \o <<1>>)) }

EdgeRows ==
    { Row(Date1, Bytes(SubSeq(Header(257, 1795), 1, 15))),
      Row(Date1, Bytes(<<>>)),
      Row(Date2, PadTo(Bytes(Header(257, 1795) \o <<52, 18, 180, 1>>),
                       MAX_UDP_MESSAGE_LENGTH, 9)),
      Row(Date2, PadTo(Bytes(Header(257, 1795) \o <<52, 18, 180, 1>>),
                       MAX_UDP_MESSAGE_LENGTH + 1, 9)),
      NoLog }

Rows == DockRows \cup SwarmbotRows \cup OtherRows \cup EdgeRows

(***************************************************************************)
(* The GPS simulator (src/unnamed/part_004, lines 189-688): constants,     *)
(* the track, the speed factor, the client commands                        *)
(*                                                                         *)
(* Representations                                                         *)
(*  - a coordinate is the pair <<longitude, latitude>> of small integers.  *)
(*  - speedFactor starts at 1, is multiplied by 1.25 = 5/4 or 0.8 = 4/5    *)
(*    and is clamped to 4 = 2^2 or 0.25 = 2^-2, so the exact value of      *)
(*    every product is 2^e2 * 5^e5.  The double the program holds is that  *)
(*    value or a neighbour of it a few units in the last place away (0.8   *)
(*    is no binary fraction, and a product is rounded): the record keeps   *)
(*    the exponents e2, e5 and drift, the sign of (double - exact value).  *)
(*    Which neighbour a rounded product is depends on the digits of the    *)
(*    operands; the model leaves it open.  The drift decides a comparison  *)
(*    or Math.round only where the exact value sits on the threshold       *)
(*    (4.0, 0.25, a quotient ending in .5): everywhere else the threshold  *)
(*    is farther than any rounding error.                                  *)
(*  - a message written to a socket by a timer is the record of its kind   *)
(*    and of the position it carries; an acknowledgment is its text.       *)
(***************************************************************************)
GGA_UPDATE_INTERVAL == 2000

BESTPOS_UPDATE_INTERVAL == 1000

\* client sockets that can be connected at the same time
MaxClients == 2

Sockets == 1..MaxClients

RECURSIVE Pow(_, _)
Pow(b, n) == IF n <= 0 THEN 1 ELSE b * Pow(b, n - 1)

Pos(n) == IF n > 0 THEN n ELSE 0

\* 2^a * 5^b > 1
ExceedsOne(a, b) == Pow(2, Pos(a)) * Pow(5, Pos(b)) > Pow(2, Pos(-a)) * Pow(5, Pos(-b))

SpeedOne == [e2 |-> 0, e5 |-> 0, drift |-> 0]

MAX_SPEED_FACTOR == [e2 |-> 2, e5 |-> 0, drift |-> 0]

MIN_SPEED_FACTOR == [e2 |-> -2, e5 |-> 0, drift |-> 0]

\* the signs the rounding error of a product 2^e2 * 5^e5 can have: a value
\* with a negative power of 5 is no double; a product of exact operands
\* that is a double is computed exactly
Drifts(e5, exactOperands) ==
    IF e5 < 0 THEN {-1, 1} ELSE IF exactOperands THEN {0} ELSE {-1, 0, 1}

\* a > b for two speed factors, b one of the two limits (exact)
Above(a, b) ==
    \/ ExceedsOne(a.e2 - b.e2, a.e5 - b.e5)
    \/ (a.e2 = b.e2 /\ a.e5 = b.e5 /\ a.drift > 0)

Below(a, b) ==
    \/ ExceedsOne(b.e2 - a.e2, b.e5 - a.e5)
    \/ (a.e2 = b.e2 /\ a.e5 = b.e5 /\ a.drift < 0)

\* Math.min(speedFactor * 1.25, MAX_SPEED_FACTOR): the values it can yield.
\* 1.25 is a double, so the product of an exact factor is exact
SpeedUp(speedFactor) ==
    {IF Above(product, MAX_SPEED_FACTOR) THEN MAX_SPEED_FACTOR ELSE product :
        product \in {[e2 |-> speedFactor.e2 - 2, e5 |-> speedFactor.e5 + 1, drift |-> d] :
                        d \in Drifts(speedFactor.e5 + 1, speedFactor.drift = 0)}}

\* Math.max(speedFactor * 0.8, MIN_SPEED_FACTOR): the values it can yield.
\* 0.8 is not a double
SpeedDown(speedFactor) ==
    {IF Below(product, MIN_SPEED_FACTOR) THEN MIN_SPEED_FACTOR ELSE product :
        product \in {[e2 |-> speedFactor.e2 + 2, e5 |-> speedFactor.e5 - 1, drift |-> d] :
                        d \in Drifts(speedFactor.e5 - 1, FALSE)}}

\* m^n / d as the integer part q and the remainder r: m^n / d = q + r / d
RECURSIVE PowerOver(_, _, _)
PowerOver(m, n, d) ==
    IF n = 0 THEN [q |-> 1 \div d, r |-> 1 % d]
    ELSE LET prev == PowerOver(m, n - 1, d)
         IN  [q |-> m * prev.q + (m * prev.r) \div d, r |-> (m * prev.r) % d]

\* Math.round of a quotient whose exact value is m^n / d, the double being
\* on the side `side` of it (-1 below, 0 equal, 1 above): a half rounds up
RoundPowerOver(m, n, d, side) ==
    LET x == PowerOver(m, n, d)
    IN  IF 2 * x.r > d \/ (2 * x.r = d /\ side >= 0) THEN x.q + 1 ELSE x.q

\* Math.round of a quotient whose exact value is 2^a * 5^b
RoundProduct(a, b, side) ==
    IF a >= 0 /\ b >= 0 THEN Pow(2, a) * Pow(5, b)
    ELSE IF b >= 0 THEN RoundPowerOver(5, b, Pow(2, -a), side)
    ELSE IF a >= 0 THEN RoundPowerOver(2, a, Pow(5, -b), side)
    ELSE IF Pow(2, -a) * Pow(5, -b) < 2 \/ (Pow(2, -a) * Pow(5, -b) = 2 /\ side >= 0)
         THEN 1 ELSE 0

\* Math.round(interval / speedFactor), for the two intervals of the program:
\* 2000 = 2^4 * 5^3 and 1000 = 2^3 * 5^3.  A factor above its exact value
\* gives a quotient below the exact quotient
RoundedInterval(interval, speedFactor) ==
    LET twos == IF interval = GGA_UPDATE_INTERVAL THEN 4 ELSE 3
    IN  RoundProduct(twos - speedFactor.e2, 3 - speedFactor.e5, -speedFactor.drift)

\* the files loadGeoJSON may be pointed at.  The coordinates of a
\* LineString are its positions, those of a Polygon its rings (the outer one
\* first), kept in two fields; the coordinates of a Point are not read
LineString3 ==
    [exists |-> TRUE, geometry |-> TRUE, type |-> "LineString",
     coordinates |-> << <<1, 2>>, <<3, 4>>, <<5, 6>> >>, rings |-> <<>>]

LineString1 ==
    [exists |-> TRUE, geometry |-> TRUE, type |-> "LineString",
     coordinates |-> << <<11, 12>> >>, rings |-> <<>>]

Polygon2 ==
    [exists |-> TRUE, geometry |-> TRUE, type |-> "Polygon",
     coordinates |-> <<>>, rings |-> << << <<7, 8>>, <<9, 10>> >>, << <<0, 0>> >> >>]

PointFeature ==
    [exists |-> TRUE, geometry |-> TRUE, type |-> "Point", coordinates |-> <<>>,
     rings |-> <<>>]

NoGeometry ==
    [exists |-> TRUE, geometry |-> FALSE, type |-> "", coordinates |-> <<>>, rings |-> <<>>]

MissingFile ==
    [exists |-> FALSE, geometry |-> FALSE, type |-> "", coordinates |-> <<>>, rings |-> <<>>]

Files == {LineString3, LineString1, Polygon2, PointFeature, NoGeometry, MissingFile}

\* loadGeoJSON on the file: the coordinates afterwards and whether it threw.
\* readFileSync throws before coordinates is emptied, a feature without
\* geometry after; currentIndex is not written
loadGeoJSON(file, coordinates) ==
    IF ~file.exists THEN [threw |-> TRUE, coordinates |-> coordinates]
    ELSE IF ~file.geometry THEN [threw |-> TRUE, coordinates |-> <<>>]
    ELSE IF file.type = "LineString"
         THEN [threw |-> FALSE, coordinates |-> file.coordinates]
    ELSE IF file.type = "Polygon"
         THEN [threw |-> FALSE, coordinates |-> file.rings[1]]
    ELSE [threw |-> FALSE, coordinates |-> <<>>]

NoPosition == [latitude |-> 0, longitude |-> 0]

\* getNextPosition: destructuring coordinates[currentIndex] throws when
\* there is no such element, before the index is written
getNextPosition(coordinates, currentIndex) ==
    IF currentIndex >= Len(coordinates)
    THEN [threw |-> TRUE, position |-> NoPosition, currentIndex |-> currentIndex]
    ELSE [threw |-> FALSE,
          position |-> [latitude |-> coordinates[currentIndex + 1][2],
                        longitude |-> coordinates[currentIndex + 1][1]],
          currentIndex |-> (currentIndex + 1) % Len(coordinates)]

\* String.prototype.trim and toLowerCase on the characters the commands use
WhiteSpace == {" ", "\t", "\n", "\r"}

RECURSIVE TrimStart(_)
TrimStart(s) ==
    IF Len(s) > 0 /\ s[1] \in WhiteSpace THEN TrimStart(Tail(s)) ELSE s

RECURSIVE TrimEnd(_)
TrimEnd(s) ==
    IF Len(s) > 0 /\ s[Len(s)] \in WhiteSpace THEN TrimEnd(SubSeq(s, 1, Len(s) - 1)) ELSE s

Trim_Not(s) == s

Trim(s) == TrimEnd(TrimStart(s))

UpperCase ==
    <<"A", "B", "C", "D", "E", "F", "G", "H", "I", "J", "K", "L", "M",
      "N", "O", "P", "Q", "R", "S", "T", "U", "V", "W", "X", "Y", "Z">>

LowerCase ==
    <<"a", "b", "c", "d", "e", "f", "g", "h", "i", "j", "k", "l", "m",
      "n", "o", "p", "q", "r", "s", "t", "u", "v", "w", "x", "y", "z">>

ToLowerCase(s) ==
    [k \in DOMAIN s |->
        IF \E u \in DOMAIN UpperCase : UpperCase[u] = s[k]
        THEN LowerCase[CHOOSE u \in DOMAIN UpperCase : UpperCase[u] = s[k]]
        ELSE s[k]]

AckPaused == "ACK: Stream paused\r\n"

AckResumed == "ACK: Stream resumed\r\n"

AckUnknown == "ACK: Unknown command\r\n"

\* the handler of a socket's "data" event: paused afterwards and the text
\* written back
OnData(data, paused) ==
    LET command == ToLowerCase(Trim(data))
    IN  IF command = <<"p", "a", "u", "s", "e">>
        THEN [paused |-> TRUE, write |-> AckPaused]
        ELSE IF command = <<"p", "l", "a", "y">>
        THEN [paused |-> FALSE, write |-> AckResumed]
        ELSE [paused |-> paused, write |-> AckUnknown]

\* what clients send
Commands ==
    { <<"p", "a", "u", "s", "e">>,
      <<" ", "P", "A", "U", "S", "E", "\r", "\n">>,
      <<"p", "l", "a", "y", "\n">>,
      <<"\t", "P", "l", "a", "Y">>,
      <<"s", "t", "o", "p">>,
      <<>>,
      <<"p", "a", "u", "s", "e", "\n", "p", "l", "a", "y">> }

(***************************************************************************)
(* State                                                                   *)
(***************************************************************************)
VARIABLES
    sharedUint8View,        \* the bytes of sharedBuffer (also read by sharedDataView)
    pc,                     \* "idle", "loop" (inside a call) or "threw"
    tableRowsLength,        \* tableRows.length of the running call
    i,                      \* rows handled by the running call
    handled,                \* rows handled since the module was loaded
    tempFieldsForMessage,   \* the samples accumulated by the running call
    row,                    \* the row handled last
    status,                 \* how its iteration ended
    deviceName,
    sectionName,
    messageIdStr,
    messageIdHex,
    fieldConfigs,           \* configMessage.Fields handed to parseFieldsFromConfig
    rowOut,                 \* the samples appended for the row
    loadedConfig,           \* the tree imported from ./udp_config
    result,                 \* the array returned by the call that ended last
    unique_messages,        \* the catalog built from it by parseUDPLogToResponse
    inFlight                \* the callers inside transformUDPLogToTimeSeries

\* the GPS simulator
VARIABLES
    process,                \* "start", "serving" (main has run) or "exited"
    coordinates,            \* the track loaded by loadGeoJSON
    currentIndex,
    paused,
    speedFactor,
    connectedSockets,       \* the sockets, in the order they connected
    errored,                \* the sockets whose "error" event was emitted
    timers,                 \* per socket, the periods of its two intervals (0: cleared)
    written,                \* per socket, what the handler that ran last wrote to it
    lastEvent               \* the handler or function that ran last

tpgVars ==
    <<sharedUint8View, pc, tableRowsLength, i, handled, tempFieldsForMessage, row, status,
      deviceName, sectionName, messageIdStr, messageIdHex, fieldConfigs, rowOut,
      loadedConfig, result, unique_messages, inFlight>>

gpsVars ==
    <<process, coordinates, currentIndex, paused, speedFactor, connectedSockets, errored,
      timers, written, lastEvent>>

vars ==
    <<sharedUint8View, pc, tableRowsLength, i, handled, tempFieldsForMessage, row, status, deviceName,
      sectionName, messageIdStr, messageIdHex, fieldConfigs, rowOut, loadedConfig,
      result, unique_messages, inFlight, process, coordinates, currentIndex, paused, speedFactor,
      connectedSockets, errored, timers, written, lastEvent>>

locals == <<row, status, deviceName, sectionName, messageIdStr, messageIdHex, fieldConfigs, rowOut>>

NoLocals ==
    /\ row' = NoLog
    /\ status' = "none"
    /\ deviceName' = <<>>
    /\ sectionName' = ""
    /\ messageIdStr' = <<>>
    /\ messageIdHex' = <<>>
    /\ fieldConfigs' = <<>>
    /\ rowOut' = <<>>

NoTimers == [gga |-> 0, bestpos |-> 0]

NothingWritten == [s \in Sockets |-> <<>>]

\* value: the position getNextPosition returned, the data a socket received
Event(kind, socket, threw, value) ==
    [kind |-> kind, socket |-> socket, threw |-> threw, value |-> value]

\* the module-level state of the simulator before main runs
GpsInit ==
    /\ process = "start"
    /\ coordinates = <<>>
    /\ currentIndex = 0
    /\ paused = TRUE
    /\ speedFactor = SpeedOne
    /\ connectedSockets = <<>>
    /\ errored = {}
    /\ timers = [s \in Sockets |-> NoTimers]
    /\ written = NothingWritten
    /\ lastEvent = Event("none", 0, FALSE, NoPosition)

Init ==
    /\ GpsInit
    /\ sharedUint8View = sharedBuffer
    /\ pc = "idle"
    /\ tableRowsLength = 0
    /\ i = 0
    /\ handled = 0
    /\ tempFieldsForMessage = <<>>
    /\ row = NoLog
    /\ status = "none"
    /\ deviceName = <<>>
    /\ sectionName = ""
    /\ messageIdStr = <<>>
    /\ messageIdHex = <<>>
    /\ fieldConfigs = <<>>
    /\ rowOut = <<>>
    /\ loadedConfig = udpConfig
    /\ result = <<>>
    /\ unique_messages = <<>>
    /\ inFlight = {}

\* the callers of transformUDPLogToTimeSeries: parseUDPLogToResponse and
\* the importers of the module
MaxCallers == 2

Callers == 1..MaxCallers

\* a call that could be entered while another one is inside its loop, as if
\* the loop had a suspension point
CanEnter_WhileRunning(position) == position \in {"idle", "loop"}

\* a call can be entered when no call is running: the function is
\* synchronous (no await, no callback between the copy of a row and the
\* reads of its fields), so it runs to its return before any other caller
\* runs
CanEnter(position) == position = "idle"

\* transformUDPLogToTimeSeries is entered: a fresh accumulator, the
\* module-level buffer as the previous call left it
TransformStart ==
    /\ CanEnter(pc)
    /\ \E c \in Callers \ inFlight : inFlight' = inFlight \cup {c}
    /\ pc' = "loop"
    /\ \E n \in 0..(MaxRows - handled) : tableRowsLength' = n
    /\ i' = 0
    /\ tempFieldsForMessage' = <<>>
    /\ NoLocals
    /\ result' = <<>>
    /\ unique_messages' = <<>>
    /\ UNCHANGED <<sharedUint8View, handled, loadedConfig>>
    /\ UNCHANGED gpsVars

\* one iteration of the loop, on the next row of the batch
TransformRow ==
    /\ pc = "loop"
    /\ i < tableRowsLength
    /\ handled < MaxRows
    /\ \E r \in Rows :
       \E b \in {LoopBodyOn(loadedConfig, sharedUint8View, r)} :
              /\ row' = r
              /\ sharedUint8View' = b.view
              /\ status' = b.status
              /\ deviceName' = b.deviceName
              /\ sectionName' = b.sectionName
              /\ messageIdStr' = b.messageIdStr
              /\ messageIdHex' = b.messageIdHex
              /\ fieldConfigs' = b.fieldConfigs
              /\ rowOut' = b.rowOut
              /\ tempFieldsForMessage' = tempFieldsForMessage \o b.rowOut
              /\ pc' = IF b.threw THEN "threw" ELSE "loop"
              /\ inFlight' = IF b.threw THEN {} ELSE inFlight
    /\ i' = i + 1
    /\ handled' = handled + 1
    /\ UNCHANGED <<tableRowsLength, loadedConfig, result, unique_messages>>
    /\ UNCHANGED gpsVars

\* the loop ends and the accumulator is returned
TransformReturn ==
    /\ pc = "loop"
    /\ ~(i < tableRowsLength)
    /\ pc' = "idle"
    /\ result' = tempFieldsForMessage
    /\ tableRowsLength' = 0
    /\ i' = 0
    /\ tempFieldsForMessage' = <<>>
    /\ NoLocals
    /\ inFlight' = {}
    /\ UNCHANGED <<sharedUint8View, handled, loadedConfig, unique_messages>>
    /\ UNCHANGED gpsVars

\* the rest of parseUDPLogToResponse, on the array its call of
\* transformUDPLogToTimeSeries returned
ParseResponse ==
    /\ pc = "idle"
    /\ unique_messages' = parseUDPLogToResponse(result)
    /\ UNCHANGED <<sharedUint8View, pc, tableRowsLength, i, handled, tempFieldsForMessage, locals,
                   loadedConfig, result, inFlight>>
    /\ UNCHANGED gpsVars

Next == TransformStart \/ TransformRow \/ TransformReturn \/ ParseResponse

Spec == Init /\ [][Next]_vars

\* the module loaded with any of the trees of Configs: the import is cast to
\* UdpConfig and UdpConfigSchema is applied to nothing, so loading is the
\* same whatever the tree
InitAnyConfig ==
    /\ GpsInit
    /\ loadedConfig \in Configs
    /\ sharedUint8View = sharedBuffer
    /\ pc = "idle"
    /\ tableRowsLength = 0
    /\ i = 0
    /\ handled = 0
    /\ tempFieldsForMessage = <<>>
    /\ row = NoLog
    /\ status = "none"
    /\ deviceName = <<>>
    /\ sectionName = ""
    /\ messageIdStr = <<>>
    /\ messageIdHex = <<>>
    /\ fieldConfigs = <<>>
    /\ rowOut = <<>>
    /\ result = <<>>
    /\ unique_messages = <<>>
    /\ inFlight = {}

SpecAnyConfig == InitAnyConfig /\ [][Next]_vars

(***************************************************************************)
(* The GPS simulator: main, the exported functions, the socket, timer and  *)
(* key handlers                                                            *)
(***************************************************************************)
IsConnected(s) == \E k \in DOMAIN connectedSockets : connectedSockets[k] = s

\* connectedSockets.splice(indexOf(s), 1)
Splice(sockets, s) ==
    LET keep == {k \in DOMAIN sockets : sockets[k] # s}
        \* position of the n-th kept socket
        Nth(n) == CHOOSE k \in keep : Cardinality({j \in keep : j <= k}) = n
    IN  [n \in 1..Cardinality(keep) |-> sockets[Nth(n)]]

\* updateIntervals of a socket: both intervals are cleared and set again
updateIntervals(factor) ==
    [gga |-> RoundedInterval(GGA_UPDATE_INTERVAL, factor),
     bestpos |-> RoundedInterval(BESTPOS_UPDATE_INTERVAL, factor)]

\* a speed key that leaves the intervals of the clients as they are
updateAllClientIntervals_Skipped(sockets, current, factor) == current

\* updateAllClientIntervals: every socket of connectedSockets sets its
\* intervals again
updateAllClientIntervals(sockets, current, factor) ==
    [s \in Sockets |->
        IF \E k \in DOMAIN sockets : sockets[k] = s THEN updateIntervals(factor)
        ELSE current[s]]

\* a timer callback that does not look at paused
TimerCallback_IgnoresPaused(type, isPaused, coords, index) ==
    LET next == getNextPosition(coords, index)
    IN  [threw |-> next.threw,
         write |-> IF next.threw THEN <<>>
                   ELSE << [type |-> type, latitude |-> next.position.latitude,
                            longitude |-> next.position.longitude] >>,
         currentIndex |-> next.currentIndex]

\* the callback of the GGA or of the BESTPOS interval: nothing when paused,
\* else the next position is taken and its message written
TimerCallback(type, isPaused, coords, index) ==
    IF isPaused THEN [threw |-> FALSE, write |-> <<>>, currentIndex |-> index]
    ELSE LET next == getNextPosition(coords, index)
         IN  [threw |-> next.threw,
              write |-> IF next.threw THEN <<>>
                        ELSE << [type |-> type, latitude |-> next.position.latitude,
                                 longitude |-> next.position.longitude] >>,
              currentIndex |-> next.currentIndex]

\* main: the track is loaded, then the server listens; an error of the load
\* is not caught
Main ==
    /\ process = "start"
    /\ \E file \in Files :
       \E loaded \in {loadGeoJSON(file, coordinates)} :
          /\ coordinates' = loaded.coordinates
          /\ process' = IF loaded.threw THEN "exited" ELSE "serving"
          /\ lastEvent' = Event("main", 0, loaded.threw, NoPosition)
    /\ written' = NothingWritten
    /\ UNCHANGED <<currentIndex, paused, speedFactor, connectedSockets, errored, timers>>
    /\ UNCHANGED tpgVars

\* a call of the exported loadGeoJSON
LoadGeoJSON ==
    /\ process = "serving"
    /\ \E file \in Files :
       \E loaded \in {loadGeoJSON(file, coordinates)} :
          /\ coordinates' = loaded.coordinates
          /\ lastEvent' = Event("loadGeoJSON", 0, loaded.threw, NoPosition)
    /\ written' = NothingWritten
    /\ UNCHANGED <<process, currentIndex, paused, speedFactor, connectedSockets, errored,
                   timers>>
    /\ UNCHANGED tpgVars

\* a call of the exported getNextPosition
GetNextPosition ==
    /\ process = "serving"
    /\ \E next \in {getNextPosition(coordinates, currentIndex)} :
          /\ currentIndex' = next.currentIndex
          /\ lastEvent' = Event("getNextPosition", 0, next.threw, next.position)
    /\ written' = NothingWritten
    /\ UNCHANGED <<process, coordinates, paused, speedFactor, connectedSockets, errored,
                   timers>>
    /\ UNCHANGED tpgVars

\* handleSocketConnection for a new socket
Connection(s) ==
    /\ process = "serving"
    /\ ~IsConnected(s)
    /\ connectedSockets' = Append(connectedSockets, s)
    /\ timers' = [timers EXCEPT ![s] = updateIntervals(speedFactor)]
    /\ written' = NothingWritten
    /\ lastEvent' = Event("connection", s, FALSE, NoPosition)
    /\ UNCHANGED <<process, coordinates, currentIndex, paused, speedFactor, errored>>
    /\ UNCHANGED tpgVars

\* the "data" event of a socket
SocketData(s) ==
    /\ process = "serving"
    /\ IsConnected(s) /\ s \notin errored
    /\ \E data \in Commands :
       \E done \in {OnData(data, paused)} :
          /\ paused' = done.paused
          /\ written' = [NothingWritten EXCEPT ![s] = <<done.write>>]
          /\ lastEvent' = Event("data", s, FALSE, data)
    /\ UNCHANGED <<process, coordinates, currentIndex, speedFactor, connectedSockets,
                   errored, timers>>
    /\ UNCHANGED tpgVars

\* the "close" event of a socket
SocketClose(s) ==
    /\ process = "serving"
    /\ IsConnected(s)
    /\ timers' = [timers EXCEPT ![s] = NoTimers]
    /\ connectedSockets' = Splice(connectedSockets, s)
    /\ errored' = errored \ {s}
    /\ written' = NothingWritten
    /\ lastEvent' = Event("close", s, FALSE, NoPosition)
    /\ UNCHANGED <<process, coordinates, currentIndex, paused, speedFactor>>
    /\ UNCHANGED tpgVars

\* the "error" event of a socket: the intervals are cleared, the socket
\* stays in connectedSockets until it closes
SocketError(s) ==
    /\ process = "serving"
    /\ IsConnected(s) /\ s \notin errored
    /\ timers' = [timers EXCEPT ![s] = NoTimers]
    /\ errored' = errored \cup {s}
    /\ written' = NothingWritten
    /\ lastEvent' = Event("error", s, FALSE, NoPosition)
    /\ UNCHANGED <<process, coordinates, currentIndex, paused, speedFactor,
                   connectedSockets>>
    /\ UNCHANGED tpgVars

\* the keys: the two arrows, play, stop, quit and any other key
SpeedKeys == {"up", "down"}

StreamKeys == {"p", "s", "q", "x"}

\* the "keypress" handler
Keypress(key) ==
    /\ process = "serving"
    /\ speedFactor' \in IF key = "up" THEN SpeedUp(speedFactor)
                        ELSE IF key = "down" THEN SpeedDown(speedFactor)
                        ELSE {speedFactor}
    /\ timers' = IF key \in SpeedKeys
                 THEN updateAllClientIntervals(connectedSockets, timers, speedFactor')
                 ELSE timers
    /\ paused' = IF key = "p" THEN FALSE ELSE IF key = "s" THEN TRUE ELSE paused
    /\ process' = IF key = "q" THEN "exited" ELSE process
    /\ written' = NothingWritten
    /\ lastEvent' = Event(key, 0, FALSE, NoPosition)
    /\ UNCHANGED <<coordinates, currentIndex, connectedSockets, errored>>
    /\ UNCHANGED tpgVars

\* an interval of a socket fires; an error of the callback is not caught
\* and ends the process
TimerTick(s, type) ==
    /\ process = "serving"
    /\ IF type = "GGA" THEN timers[s].gga > 0 ELSE timers[s].bestpos > 0
    /\ \E done \in {TimerCallback(type, paused, coordinates, currentIndex)} :
          /\ currentIndex' = done.currentIndex
          /\ written' = [NothingWritten EXCEPT ![s] = done.write]
          /\ process' = IF done.threw THEN "exited" ELSE process
          /\ lastEvent' = Event(type, s, done.threw, NoPosition)
    /\ UNCHANGED <<coordinates, paused, speedFactor, connectedSockets, errored, timers>>
    /\ UNCHANGED tpgVars

GgaTick == \E s \in Sockets : TimerTick(s, "GGA")

BestposTick == \E s \in Sockets : TimerTick(s, "BESTPOS")

\* the track and the stream: the exported functions, the clients, their
\* commands and timers, at the speed the simulator starts with
NextGps ==
    \/ Main
    \/ LoadGeoJSON
    \/ GetNextPosition
    \/ \E s \in Sockets : Connection(s)
    \/ \E s \in Sockets : SocketData(s)
    \/ \E s \in Sockets : SocketClose(s)
    \/ \E s \in Sockets : SocketError(s)
    \/ \E key \in StreamKeys : Keypress(key)
    \/ GgaTick
    \/ BestposTick

SpecGps == Init /\ [][NextGps]_vars

\* the speed keys and the intervals of the clients: the handlers left out
\* (the exported functions, "data", the timer callbacks, the other keys)
\* read and write neither speedFactor nor the intervals nor connectedSockets
NextSpeed ==
    \/ Main
    \/ \E s \in Sockets : Connection(s)
    \/ \E s \in Sockets : SocketClose(s)
    \/ \E s \in Sockets : SocketError(s)
    \/ \E key \in SpeedKeys : Keypress(key)

SpecSpeed == Init /\ [][NextSpeed]_vars


(***************************************************************************)
(* Reading the state for the properties below                              *)
(***************************************************************************)
\* byte k of the row handled last, read from the row itself
RowByte(k) == ByteAt(row.log, k)

RowLength == row.log.length

\* the row handled last reached parseFieldsFromConfig
Decoded == pc = "loop" /\ status = "decoded"

\* the row handled last passed the length gate
Accepted == pc = "loop" /\ status \in {"decoded", "unresolved"}

\* what the loop of parseFieldsFromConfig pushes for field f of the row
FieldOut(f) ==
    DecodeField(sharedUint8View, RowLength, f, StringToNumber(row.date), messageIdStr,
                deviceName, messageIdHex).samples

RECURSIVE EmittedBefore(_)
EmittedBefore(k) ==
    IF k <= 1 THEN 0 ELSE EmittedBefore(k - 1) + Len(FieldOut(fieldConfigs[k - 1]))

\* the samples of rowOut at the place of field k of the descriptor
EmittedBy(k) ==
    SubSeq(rowOut, EmittedBefore(k) + 1,
           EmittedBefore(k) + Len(FieldOut(fieldConfigs[k])))

\* the value of a sample
ValueOf(sample) == sample.series[1][2]

UsesBits(f) == f.use_bits = 1 /\ f.bits.present

\* every byte offset of f names a payload byte of the row
AllInRow(f) == \A b \in DOMAIN f.bytes : f.bytes[b] >= 0 /\ 16 + f.bytes[b] < RowLength

\* the descriptor keys of the row, from its bytes 6..7
RowPrefixKey == NumberToString(RowByte(7))

RowMessageKey == NumberToString(RowByte(6) + 256 * RowByte(7))

RowDeviceId == RowByte(0) + 256 * RowByte(1)

(***************************************************************************)
(* C1                                                                      *)
(***************************************************************************)
\* C1: for every accepted row, when the section of its device family has a
\* Prefixes entry under the decimal string of the high byte of the message
\* identifier (bytes 6..7, little-endian), the fields decoded are that
\* entry's, whether or not Messages has an entry for the full identifier;
\* the Messages entry is used only when there is no prefix entry.
C1_PrefixPrecedence ==
    Accepted =>
        LET section == udpConfig[sectionName]
        IN  /\ RowPrefixKey \in DOMAIN section.Prefixes =>
                  /\ status = "decoded"
                  /\ fieldConfigs = section.Prefixes[RowPrefixKey].Fields
                  /\ rowOut = ParseFrom(sharedUint8View, RowLength,
                                        section.Prefixes[RowPrefixKey].Fields,
                                        StringToNumber(row.date), messageIdStr,
                                        deviceName, messageIdHex, 1)
            /\ (RowPrefixKey \notin DOMAIN section.Prefixes
                    /\ RowMessageKey \in DOMAIN section.Messages) =>
                  /\ status = "decoded"
                  /\ fieldConfigs = section.Messages[RowMessageKey].Fields
            /\ (RowPrefixKey \notin DOMAIN section.Prefixes
                    /\ RowMessageKey \notin DOMAIN section.Messages) =>
                  status = "unresolved"

\* a decoded row whose identifier has both a prefix entry and an exact
\* entry, with different fields, and that emitted samples
C1_Witness ==
    /\ Decoded
    /\ RowPrefixKey \in DOMAIN udpConfig[sectionName].Prefixes
    /\ RowMessageKey \in DOMAIN udpConfig[sectionName].Messages
    /\ udpConfig[sectionName].Prefixes[RowPrefixKey].Fields
           # udpConfig[sectionName].Messages[RowMessageKey].Fields
    /\ rowOut # <<>>

(***************************************************************************)
(* C2                                                                      *)
(***************************************************************************)
\* C2: a row is decoded only if 16 <= length <= 2048.  Handling a row with
\* length < 16 or > 2048 appends no sample, raises no error and leaves the
\* accumulated samples and the scratch buffer as they were (so no other
\* row's samples change); a row of length 16 up to 2048 passes the gate and
\* its bytes are the ones in the buffer afterwards.
C2_LengthGate ==
    [][(handled' = handled + 1 /\ row'.isArray) =>
          LET len == row'.log.length
          IN  /\ pc' = "loop"
              /\ (len < 16 \/ len > 2048) =>
                    /\ status' = "rejected"
                    /\ rowOut' = <<>>
                    /\ tempFieldsForMessage' = tempFieldsForMessage
                    /\ sharedUint8View' = sharedUint8View
              /\ (len >= 16 /\ len <= 2048) =>
                    /\ status' \in {"decoded", "unresolved"}
                    /\ \A k \in DOMAIN row'.log.nz \cup {0, len - 1} :
                          ByteAt(sharedUint8View', k) = ByteAt(row'.log, k)
       ]_vars

\* a row longer than 2048 bytes was skipped after an earlier row of
\* the call had emitted samples
C2_Witness ==
    /\ pc = "loop"
    /\ status = "rejected"
    /\ RowLength > 2048
    /\ rowOut = <<>>
    /\ tempFieldsForMessage # <<>>

(***************************************************************************)
(* C3                                                                      *)
(***************************************************************************)
\* the identifiers of the device table
TableDeviceIds == {0, 1, 2, 3, 4, 5, 256, 257, 258, 259, 260, 65535}

\* C3: device resolution never fails: a 16-bit identifier (bytes 0..1,
\* little-endian) that is not in the device table resolves to "invalid",
\* and every row whose device is neither dock (257) nor swarmbot (258) is
\* resolved against the "Other Messages" section.
C3_DeviceResolutionTotal ==
    /\ pc # "threw"
    /\ Accepted =>
          /\ RowDeviceId \notin TableDeviceIds => deviceName = <<"i", "n", "v", "a", "l", "i", "d">>
          /\ RowDeviceId \notin {257, 258} => sectionName = "Other Messages"
          /\ RowDeviceId = 257 => sectionName = "Dock Messages"
          /\ RowDeviceId = 258 => sectionName = "SwarmBot Messages"
          /\ (status = "decoded" /\ RowDeviceId \notin {257, 258}) =>
                \E key \in DOMAIN udpConfig["Other Messages"].Prefixes :
                    fieldConfigs = udpConfig["Other Messages"].Prefixes[key].Fields
    /\ (pc = "idle" /\ handled = 0) =>
          \A id \in 0..65535 :
              /\ id \notin TableDeviceIds =>
                    DeviceNameOf(id) = <<"i", "n", "v", "a", "l", "i", "d">>
              /\ id \notin {257, 258} => SectionOf(DeviceNameOf(id)) = "Other Messages"

\* a row of a device that is not in the table was decoded as "invalid"
\* against the Other section and emitted samples
C3_Witness ==
    /\ Decoded
    /\ RowDeviceId \notin TableDeviceIds
    /\ deviceName = InvalidName
    /\ sectionName = "Other Messages"
    /\ rowOut # <<>>

(***************************************************************************)
(* C4                                                                      *)
(***************************************************************************)
\* C4: a row that neither the prefix lookup nor the exact lookup resolves
\* emits no sample and raises no error, the samples of the rows before it
\* stay as they are, and every row handled after it is decoded exactly as
\* it would be had the unresolved row not been handled.
C4_UnresolvedRowIsInert ==
    [][(handled' = handled + 1 /\ status' = "unresolved") =>
          /\ pc' = "loop"
          /\ rowOut' = <<>>
          /\ tempFieldsForMessage' = tempFieldsForMessage
          /\ \A r \in Rows :
                LoopBody(sharedUint8View', r).rowOut = LoopBody(sharedUint8View, r).rowOut
       ]_vars

(***************************************************************************)
(* C5                                                                      *)
(***************************************************************************)
ScalarWidth(type) ==
    CASE type = "uint8_t" -> 1 [] type = "uint16_t" -> 2 [] type = "uint32_t" -> 4
      [] OTHER -> 0

Contiguous(bytes) == \A b \in 1..(Len(bytes) - 1) : bytes[b + 1] = bytes[b] + 1

\* the unsigned little-endian integer of `width` bytes stored in the row at
\* offset o, as 16-bit halves
RowLittleEndian(o, width) ==
    [hi |-> IF width = 4 THEN RowByte(o + 2) + 256 * RowByte(o + 3) ELSE 0,
     lo |-> IF width = 1 THEN RowByte(o) ELSE RowByte(o) + 256 * RowByte(o + 1)]

\* the fields C5 is about
PlainScalar(f) ==
    /\ f.type \in {"uint8_t", "uint16_t", "uint32_t"}
    /\ ~UsesBits(f)
    /\ Len(f.bytes) = ScalarWidth(f.type)
    /\ Contiguous(f.bytes)
    /\ AllInRow(f)
    /\ f.multiplier = One
    /\ f.dependent_on = <<>>

\* C5: a u8, u16 or u32 field whose byte offsets are contiguous, as many as
\* the type is wide and inside the row, with multiplier 1.0 and no
\* dependency, emits exactly one sample: its value is the unsigned
\* little-endian integer stored in the row at offset 16 + byteOffsets[0]
\* and its label is the descriptor's label.
C5_ScalarDecode ==
    Decoded =>
        \A k \in DOMAIN fieldConfigs :
            LET f == fieldConfigs[k]
            IN  PlainScalar(f) =>
                    /\ Len(EmittedBy(k)) = 1
                    /\ EmittedBy(k)[1].label = f.label
                    /\ ValueOf(EmittedBy(k)[1]).n
                           = RowLittleEndian(16 + f.bytes[1], ScalarWidth(f.type))
                    /\ ValueOf(EmittedBy(k)[1]).times = [num |-> 1, den |-> 1]

\* bytes 0x34, 0x12 at the offset of a u16 field were emitted as 4660, and
\* a u32 field of the same descriptor list was emitted too
C5_Witness ==
    /\ Decoded
    /\ \E k \in DOMAIN fieldConfigs :
          /\ PlainScalar(fieldConfigs[k])
          /\ fieldConfigs[k].type = "uint32_t"
          /\ RowByte(16 + fieldConfigs[k].bytes[1]) = 52
          /\ RowByte(17 + fieldConfigs[k].bytes[1]) = 18
          /\ Len(EmittedBy(k)) = 1
          /\ ValueOf(EmittedBy(k)[1]).n = [hi |-> 0, lo |-> 4660]

(***************************************************************************)
(* C6                                                                      *)
(***************************************************************************)
\* bit t of the little-endian combination of the row's bytes at the offsets
\* of f (byte i contributes byte * 256^i)
CombinedBit(f, t) == BitOf(RowByte(16 + f.bytes[(t \div 8) + 1]), t % 8)

RECURSIVE SumCombined(_, _, _, _)
SumCombined(f, from, count, t) ==
    IF t >= count THEN 0
    ELSE CombinedBit(f, from + t) * (2 ^ t) + SumCombined(f, from, count, t + 1)

\* floor(combined / 2^start) mod 2^num, as 16-bit halves
ExtractedBits(f, start, num) ==
    [hi |-> IF num > 16 THEN SumCombined(f, start + 16, num - 16, 0) ELSE 0,
     lo |-> SumCombined(f, start, IF num > 16 THEN 16 ELSE num, 0)]

\* C6: for a bit-packed field whose bytes are all inside the row, every
\* bit-subfield with startBit + bitCount within the combined width has the
\* raw value floor(combined / 2^startBit) mod 2^bitCount, where combined is
\* the little-endian combination of the bytes at 16 + byteOffsets[i]; and
\* getBits(180, 2, 3) = 5.
C6_BitExtraction ==
    /\ getBits(180, 2, 3) = 5
    /\ Decoded =>
          \A k \in DOMAIN fieldConfigs :
              LET f == fieldConfigs[k]
              IN  (UsesBits(f) /\ AllInRow(f)) =>
                      \A j \in DOMAIN f.bits.items :
                          LET b == f.bits.items[j]
                          IN  (b.Start >= 0 /\ b.Num >= 0
                                   /\ b.Start + b.Num <= 8 * Len(f.bytes)) =>
                                  /\ j <= Len(EmittedBy(k))
                                  /\ ValueOf(EmittedBy(k)[j]).n
                                         = ExtractedBits(f, b.Start, b.Num)

(***************************************************************************)
(* C7                                                                      *)
(***************************************************************************)
\* the label the sample(s) of f carry after dependency resolution, from the
\* row's bytes: the first part of "A | B" when the bit is 1, the second
\* when it is 0; the label itself when there is no readable dependency bit
\* or the label does not split in two
DependencyReadable(f) ==
    /\ f.dependent_on # <<>>
    /\ f.dependent_on[1].byte >= 0
    /\ 16 + f.dependent_on[1].byte < RowLength
    /\ f.dependent_on[1].bit \in 0..7

DependencyBit(f) == BitOf(RowByte(16 + f.dependent_on[1].byte), f.dependent_on[1].bit)

EffectiveLabel(f) ==
    IF DependencyReadable(f) /\ Len(Split(f.label, <<" ", "|", " ">>)) = 2
    THEN Split(f.label, <<" ", "|", " ">>)[IF DependencyBit(f) = 1 THEN 1 ELSE 2]
    ELSE f.label

\* the message identity of the row handled last, from its bytes:
\* "<device>:<hex id>" under a prefix match, the decimal identifier otherwise
RowMessageIdentity ==
    IF RowPrefixKey \in DOMAIN udpConfig[sectionName].Prefixes
    THEN deviceName \o <<":">> \o ByteToHex(RowByte(7)) \o ByteToHex(RowByte(6))
    ELSE RowMessageKey

\* C7 as stated: an in-bounds bit-packed field emits one sample per declared
\* bit-subfield, in declaration order, and each label is exactly
\* "<field label>_<subfield name>".
C7_BitLabelsFieldAndName ==
    Decoded =>
        \A k \in DOMAIN fieldConfigs :
            LET f == fieldConfigs[k]
            IN  (UsesBits(f) /\ AllInRow(f)) =>
                    /\ Len(EmittedBy(k)) = Len(f.bits.items)
                    /\ \A j \in DOMAIN f.bits.items :
                          EmittedBy(k)[j].label
                              = EffectiveLabel(f) \o <<"_">> \o f.bits.items[j].Name

\* C7 (amended): an in-bounds bit-packed field emits one sample per declared
\* bit-subfield, in declaration order, and each label is exactly
\* "<message identity>_<field label>_<subfield name>", the message identity
\* being "<device family>:<four hex digits of the identifier>" for a prefix
\* match and the decimal identifier for an exact match.
C7_BitLabelsWithMessageIdentity ==
    Decoded =>
        \A k \in DOMAIN fieldConfigs :
            LET f == fieldConfigs[k]
            IN  (UsesBits(f) /\ AllInRow(f)) =>
                    /\ Len(EmittedBy(k)) = Len(f.bits.items)
                    /\ \A j \in DOMAIN f.bits.items :
                          /\ EmittedBy(k)[j].label
                                 = RowMessageIdentity \o <<"_">> \o EffectiveLabel(f)
                                       \o <<"_">> \o f.bits.items[j].Name
                          /\ ValueOf(EmittedBy(k)[j]).n
                                 = NumOf(getBits(CombineBytes(sharedUint8View, RowLength,
                                                              f.bytes, 0, 0).value,
                                                 f.bits.items[j].Start,
                                                 f.bits.items[j].Num))

\* a bit-packed field with two subfields inside the row was emitted, one
\* sample per subfield
C7_Witness ==
    /\ Decoded
    /\ \E k \in DOMAIN fieldConfigs :
          /\ UsesBits(fieldConfigs[k])
          /\ AllInRow(fieldConfigs[k])
          /\ Len(fieldConfigs[k].bytes) > 0
          /\ Len(fieldConfigs[k].bits.items) >= 2
          /\ Len(EmittedBy(k)) = Len(fieldConfigs[k].bits.items)
          /\ EmittedBy(k)[1].label # EmittedBy(k)[2].label

(***************************************************************************)
(* C8                                                                      *)
(***************************************************************************)
\* C8: for a field with a dependency whose bit is readable, a label that
\* splits on " | " into exactly two parts is replaced by the first part
\* when the bit is 1 and by the second when it is 0, in the label (and the
\* identity) of every sample the field emits; a label that does not split
\* into exactly two parts is kept for either bit value.
C8_DependentLabel ==
    Decoded =>
        \A k \in DOMAIN fieldConfigs :
            LET f == fieldConfigs[k]
                parts == Split(f.label, <<" ", "|", " ">>)
                expected == IF Len(parts) = 2
                            THEN (IF DependencyBit(f) = 1 THEN parts[1] ELSE parts[2])
                            ELSE f.label
                idHead == deviceName \o <<"_">> \o ByteToHex(RowByte(7))
                              \o ByteToHex(RowByte(6)) \o <<"_">> \o expected
            IN  DependencyReadable(f) =>
                    \A j \in DOMAIN EmittedBy(k) :
                        IF UsesBits(f)
                        THEN /\ EmittedBy(k)[j].label
                                   = RowMessageIdentity \o <<"_">> \o expected \o <<"_">>
                                         \o f.bits.items[j].Name
                             /\ EmittedBy(k)[j].id
                                   = idHead \o <<"_">> \o f.bits.items[j].Name
                        ELSE /\ EmittedBy(k)[j].label = expected
                             /\ EmittedBy(k)[j].id = idHead

\* the two-part label of a bit-packed field was resolved to its first part
\* by a set bit, next to a dependent field whose label has no two parts and
\* was kept
C8_Witness ==
    /\ Decoded
    /\ \E k \in DOMAIN fieldConfigs :
          /\ DependencyReadable(fieldConfigs[k])
          /\ DependencyBit(fieldConfigs[k]) = 1
          /\ Len(Split(fieldConfigs[k].label, LabelSeparator)) = 2
          /\ EmittedBy(k) # <<>>
          /\ UsesBits(fieldConfigs[k])
          /\ EmittedBy(k)[1].label
                 = RowMessageIdentity \o <<"_">>
                       \o Split(fieldConfigs[k].label, LabelSeparator)[1] \o <<"_">>
                       \o fieldConfigs[k].bits.items[1].Name
    /\ \E k \in DOMAIN fieldConfigs :
          /\ DependencyReadable(fieldConfigs[k])
          /\ Len(Split(fieldConfigs[k].label, LabelSeparator)) # 2
          /\ EmittedBy(k) # <<>>
          /\ EmittedBy(k)[1].label = fieldConfigs[k].label

(***************************************************************************)
(* C9                                                                      *)
(***************************************************************************)
\* field f of the row is skipped: an offset outside the row, no scalar type
\* and no bits, or an error while reading
SkippedField(f) ==
    \/ UsesBits(f) /\ ~AllInRow(f)
    \/ ~UsesBits(f) /\ f.type = "null"
    \/ ~UsesBits(f) /\ f.type # "null" /\ Len(f.bytes) > 0
          /\ (~AllInRow(f) \/ 16 + f.bytes[1] + Len(f.bytes) > RowLength)
    \/ DecodeField(sharedUint8View, RowLength, f, StringToNumber(row.date), messageIdStr,
                   deviceName, messageIdHex).threw

RemoveAt(seq, k) == SubSeq(seq, 1, k - 1) \o SubSeq(seq, k + 1, Len(seq))

\* C9: a skipped field emits nothing and leaves the samples of the other
\* fields of the row as they would be with the field removed from the
\* descriptor; no error leaves the row, and the samples of the rows before
\* stay in front of the row's samples.
C9_FieldFailureIsolation ==
    /\ pc # "threw"
    /\ Decoded =>
          /\ \A k \in DOMAIN fieldConfigs :
                SkippedField(fieldConfigs[k]) =>
                    /\ EmittedBy(k) = <<>>
                    /\ rowOut = parseFieldsFromConfig(sharedUint8View, RowLength,
                                    RemoveAt(fieldConfigs, k), StringToNumber(row.date),
                                    messageIdStr, deviceName, messageIdHex).samples
          /\ Len(rowOut) <= Len(tempFieldsForMessage)
          /\ rowOut = SubSeq(tempFieldsForMessage,
                             Len(tempFieldsForMessage) - Len(rowOut) + 1,
                             Len(tempFieldsForMessage))

\* a field left through the catch block and a later field of the same row
\* still emitted its sample
C9_Witness ==
    /\ Decoded
    /\ \E k \in DOMAIN fieldConfigs :
          /\ SkippedField(fieldConfigs[k])
          /\ DecodeField(sharedUint8View, RowLength, fieldConfigs[k],
                         StringToNumber(row.date), messageIdStr, deviceName,
                         messageIdHex).threw
          /\ \E later \in DOMAIN fieldConfigs : later > k /\ EmittedBy(later) # <<>>

(***************************************************************************)
(* C10                                                                     *)
(***************************************************************************)
\* C10: the samples emitted for a row depend only on the row and the
\* descriptor tree: whatever rows were decoded before it, in this call or an
\* earlier one, they are the samples the row yields on the buffer as it is
\* when the module is loaded.
C10_RowIsolation ==
    Decoded => rowOut = LoopBody(sharedBuffer, row).rowOut

(***************************************************************************)
(* C11                                                                     *)
(***************************************************************************)
\* the samples of the fields 1..n of a descriptor, field after field
RECURSIVE FieldsInOrder(_, _, _, _, _, _, _, _)
FieldsInOrder(view, len, fields, ts, mid, dev, hex, n) ==
    IF n = 0 THEN <<>>
    ELSE FieldsInOrder(view, len, fields, ts, mid, dev, hex, n - 1)
            \o DecodeField(view, len, fields[n], ts, mid, dev, hex).samples

\* the samples of a bit-packed field follow the order of its subfields
SubfieldOrder(view, len, f, ts, mid, dev, hex) ==
    LET run == DecodeField(view, len, f, ts, mid, dev, hex).samples
    IN  (UsesBits(f) /\ run # <<>>) =>
            /\ Len(run) = Len(f.bits.items)
            /\ \A j \in DOMAIN run :
                  LET name == f.bits.items[j].Name
                      label == run[j].label
                  IN  SubSeq(label, Len(label) - Len(name) + 1, Len(label)) = name

\* the samples `out` of row r decoded on `view` are those of its fields,
\* in declaration order
InDeclarationOrder(view, r, fields, mid, dev, hex, out) ==
    LET ts == StringToNumber(r.date)
    IN  /\ out = FieldsInOrder(view, r.log.length, fields, ts, mid, dev, hex, Len(fields))
        /\ \A k \in DOMAIN fields :
              SubfieldOrder(view, r.log.length, fields[k], ts, mid, dev, hex)

\* the run of samples of row r when it is handled again after row q
RunAfter(view, q, r) == LoopBody(LoopBody(view, q).view, r).rowOut

\* the part of C11 on order alone: each row's samples are appended to the
\* accumulator as one run, in field declaration order, and the call returns
\* the accumulator as it is
C11_AppendedInRowOrder ==
    [][/\ handled' = handled + 1 =>
            /\ tempFieldsForMessage' = tempFieldsForMessage \o rowOut'
            /\ status' = "decoded" =>
                  InDeclarationOrder(sharedUint8View', row', fieldConfigs', messageIdStr',
                                     deviceName', messageIdHex', rowOut')
       /\ (pc = "loop" /\ pc' = "idle") => result' = tempFieldsForMessage
      ]_vars

\* C11: the returned sequence is the concatenation, in row order, of each
\* row's samples, a row's samples being in field declaration order; nothing
\* is reordered, merged or dropped, and a row identical to one handled
\* before it in the batch yields a run of samples identical to that row's.
C11_OutputOrder ==
    [][/\ handled' = handled + 1 =>
            /\ tempFieldsForMessage' = tempFieldsForMessage \o rowOut'
            /\ status' = "decoded" =>
                  InDeclarationOrder(sharedUint8View', row', fieldConfigs', messageIdStr',
                                     deviceName', messageIdHex', rowOut')
            /\ \A q \in Rows : RunAfter(sharedUint8View', q, row') = rowOut'
       /\ (pc = "loop" /\ pc' = "idle") => result' = tempFieldsForMessage
      ]_vars

(***************************************************************************)
(* C12                                                                     *)
(***************************************************************************)
\* the (device family, message identity) pair of a sample, read from its
\* identity: the sender, an underscore and the four hexadecimal digits
PairOf(sample) == SubSeq(sample.id, 1, Len(sample.sender) + 5)

PairsOf(parsed) == {PairOf(parsed[k]) : k \in DOMAIN parsed}

LabelsOf(parsed, pair) ==
    {parsed[k].label : k \in {n \in DOMAIN parsed : PairOf(parsed[n]) = pair}}

NoRepeats(seq) == \A j, k \in DOMAIN seq : seq[j] = seq[k] => j = k

\* C12: the catalog built from a sample list has exactly one entry per
\* distinct (device family, message identity) pair of the samples'
\* identities, and the entry's labels are exactly the labels of the samples
\* of that pair, each once.
C12_CatalogPerMessage ==
    [][(pc = "idle" /\ pc' = "idle") =>
          /\ NoRepeats([k \in DOMAIN unique_messages' |-> unique_messages'[k].id])
          /\ {unique_messages'[k].id : k \in DOMAIN unique_messages'} = PairsOf(result)
          /\ \A k \in DOMAIN unique_messages' :
                LET entry == unique_messages'[k]
                IN  /\ NoRepeats(entry.fields)
                    /\ {entry.fields[j] : j \in DOMAIN entry.fields}
                           = LabelsOf(result, entry.id)
                    /\ \E n \in DOMAIN result :
                          PairOf(result[n]) = entry.id /\ result[n].sender = entry.sender
      ]_vars

\* a catalog of two messages built from a list in which one message has
\* samples of different labels
C12_Witness ==
    /\ pc = "idle"
    /\ unique_messages = parseUDPLogToResponse(result)
    /\ Len(unique_messages) = 2
    /\ \E k \in DOMAIN unique_messages : Len(unique_messages[k].fields) >= 2
    /\ Cardinality(PairsOf(result)) = 2

(***************************************************************************)
(* C13                                                                     *)
(***************************************************************************)
\* C13: a tree that fails the structural validation is fatal when the module
\* is loaded: with such a tree no call gets to handle a row, and no error
\* leaves a call in the middle of a batch.
C13_MalformedConfigFatalAtLoad ==
    ~UdpConfigSchema(loadedConfig) => (handled = 0 /\ pc # "threw")

(***************************************************************************)
(* C14                                                                     *)
(***************************************************************************)
\* the row handled last is not decoded: it is no array, too short, too
\* long or unresolved
NotDecodable == status \in {"norow", "rejected", "unresolved"}

\* C14: with the tree that passes the schema, a call handles every row of
\* its batch, whatever the row, and raises nothing; it ends: while rows are
\* left the next one can be handled and handling it brings the loop index
\* one closer to the length of the batch, and at the length the call
\* returns, with the samples of the rows it decoded, one run after the other.
C14_BatchTotality ==
    /\ [](pc # "threw")
    /\ [](pc = "loop" =>
            /\ i <= tableRowsLength
            /\ i < tableRowsLength => ENABLED TransformRow
            /\ i = tableRowsLength => ENABLED TransformReturn)
    /\ [][handled' = handled + 1 =>
            /\ i < tableRowsLength /\ i' = i + 1 /\ tableRowsLength' = tableRowsLength
            /\ pc' = "loop"
            /\ tempFieldsForMessage' = tempFieldsForMessage \o rowOut'
            /\ rowOut' = LoopBody(sharedUint8View, row').rowOut
            /\ NotDecodable' => rowOut' = <<>>
        ]_vars
    /\ [][(pc = "loop" /\ pc' # "loop") =>
            (i = tableRowsLength /\ pc' = "idle" /\ result' = tempFieldsForMessage)]_vars

\* the last row of a batch of two is decoded with a field that left through
\* the catch block, after a row that emitted samples
C14_Witness ==
    /\ Decoded
    /\ tableRowsLength = 2 /\ i = tableRowsLength
    /\ Len(tempFieldsForMessage) > Len(rowOut)
    /\ \E k \in DOMAIN fieldConfigs :
          DecodeField(sharedUint8View, RowLength, fieldConfigs[k],
                      StringToNumber(row.date), messageIdStr, deviceName,
                      messageIdHex).threw

(***************************************************************************)
(* C15                                                                     *)
(***************************************************************************)
\* the number of successive calls of getNextPosition the properties look at
CallsAhead == 4

\* currentIndex after k calls of getNextPosition in a row
RECURSIVE IndexAfter(_, _, _)
IndexAfter(coords, index, k) ==
    IF k = 0 THEN index
    ELSE getNextPosition(coords, IndexAfter(coords, index, k - 1)).currentIndex

\* what the k-th of the calls to come returns
Call(coords, index, k) == getNextPosition(coords, IndexAfter(coords, index, k - 1))

\* the position of the coordinate pair [longitude, latitude]
PositionOf(pair) == [latitude |-> pair[2], longitude |-> pair[1]]

\* C15: once loadGeoJSON has loaded n >= 1 coordinates, every call of
\* getNextPosition returns a coordinate of the track, the call after it
\* returns the coordinate that follows in the track (the first after the
\* last), and the (k+n)-th call returns the latitude and longitude of the
\* k-th.
C15_Cycling ==
    (process = "serving" /\ Len(coordinates) >= 1) =>
        \A k \in 1..CallsAhead :
            LET n == Len(coordinates)
                this == Call(coordinates, currentIndex, k)
                next == Call(coordinates, currentIndex, k + 1)
                later == Call(coordinates, currentIndex, k + n)
            IN  /\ ~this.threw /\ ~next.threw /\ ~later.threw
                /\ \E j \in 1..n :
                      /\ this.position = PositionOf(coordinates[j])
                      /\ next.position = PositionOf(coordinates[(j % n) + 1])
                /\ later.position = this.position

(***************************************************************************)
(* C16                                                                     *)
(***************************************************************************)
\* C16: whatever calls of getNextPosition came before, after a successful
\* loadGeoJSON the next call of getNextPosition returns the first coordinate
\* of the geometry just loaded, the call after it the second, and so on.
C16_LoadResetsTrack ==
    [][(lastEvent'.kind \in {"main", "loadGeoJSON"} /\ ~lastEvent'.threw) =>
          \A k \in 1..CallsAhead :
              k <= Len(coordinates') =>
                  LET call == Call(coordinates', currentIndex', k)
                  IN  ~call.threw /\ call.position = PositionOf(coordinates'[k])
      ]_vars

(***************************************************************************)
(* C17                                                                     *)
(***************************************************************************)
\* the part of the data between its first and its last character that is no
\* white space
Core(data) ==
    LET inked == {k \in DOMAIN data : data[k] \notin WhiteSpace}
    IN  IF inked = {} THEN <<>>
        ELSE SubSeq(data, CHOOSE k \in inked : \A j \in inked : k <= j,
                          CHOOSE k \in inked : \A j \in inked : j <= k)

\* the core of the data is the word, in capitals or small letters
Spells(data, word) ==
    /\ Len(Core(data)) = Len(word)
    /\ \A k \in DOMAIN word :
          \/ Core(data)[k] = word[k]
          \/ \E n \in DOMAIN LowerCase :
                LowerCase[n] = word[k] /\ UpperCase[n] = Core(data)[k]

Pause == <<"p", "a", "u", "s", "e">>

Play == <<"p", "l", "a", "y">>

IsTick(event) == event.kind \in {"GGA", "BESTPOS"}

\* C17: the stream starts paused; while paused is true a GGA or BESTPOS
\* timer tick writes nothing to any socket and leaves the coordinate index;
\* a "pause" command of any client and the "s" key set paused, a "play"
\* command and the "p" key clear it, for every client at once: while paused
\* is false the tick of any client's timer writes that client one message
\* with the next position of the track and advances the index.
C17_PausePlay ==
    /\ paused = TRUE
    /\ [][IsTick(lastEvent') =>
            IF paused THEN /\ written' = NothingWritten
                           /\ currentIndex' = currentIndex
                           /\ ~lastEvent'.threw
            ELSE LET next == getNextPosition(coordinates, currentIndex)
                     s == lastEvent'.socket
                 IN  /\ lastEvent'.threw = next.threw
                     /\ \A t \in Sockets \ {s} : written'[t] = <<>>
                     /\ ~next.threw =>
                           /\ written'[s] = << [type |-> lastEvent'.kind,
                                                latitude |-> next.position.latitude,
                                                longitude |-> next.position.longitude] >>
                           /\ currentIndex' = next.currentIndex
         ]_vars
    /\ [][/\ (lastEvent'.kind = "data" /\ Spells(lastEvent'.value, Pause)) => paused'
          /\ (lastEvent'.kind = "data" /\ Spells(lastEvent'.value, Play)) => ~paused'
          /\ lastEvent'.kind = "s" => paused'
          /\ lastEvent'.kind = "p" => ~paused'
          /\ paused' # paused =>
                \/ lastEvent'.kind \in {"s", "p"}
                \/ /\ lastEvent'.kind = "data"
                   /\ Spells(lastEvent'.value, Pause) \/ Spells(lastEvent'.value, Play)
         ]_vars

\* a timer of the second of two clients fires while the stream is paused,
\* after the stream ran: the first client had paused it
C17_Witness ==
    /\ paused /\ IsTick(lastEvent) /\ lastEvent.socket = 2
    /\ Len(connectedSockets) = 2
    /\ currentIndex > 0
    /\ written = NothingWritten

(***************************************************************************)
(* C18                                                                     *)
(***************************************************************************)
\* C18: every data event of a client writes exactly one acknowledgment, to
\* that client and to no other: "ACK: Stream paused" when the data, without
\* the white space around it and in small letters, is "pause", "ACK: Stream
\* resumed" when it is "play", "ACK: Unknown command" for any other data.
C18_Acknowledgment ==
    [][lastEvent'.kind = "data" =>
          LET s == lastEvent'.socket
              data == lastEvent'.value
          IN  /\ written'[s] = << IF Spells(data, Pause) THEN AckPaused
                                  ELSE IF Spells(data, Play) THEN AckResumed
                                  ELSE AckUnknown >>
              /\ \A t \in Sockets \ {s} : written'[t] = <<>>
      ]_vars

\* a client sent "pause" in capitals with white space around it and got the
\* acknowledgment of the pause, the other client nothing
C18_Witness ==
    /\ lastEvent.kind = "data"
    /\ Spells(lastEvent.value, Pause) /\ lastEvent.value # Pause
    /\ written[lastEvent.socket] = <<AckPaused>>
    /\ Len(connectedSockets) = 2
    /\ \A t \in Sockets \ {lastEvent.socket} : written[t] = <<>>

(***************************************************************************)
(* C19                                                                     *)
(***************************************************************************)
\* the exact value of the factor is at most 4 and at least 0.25, and at the
\* limit the double is not beyond it
WithinLimits(factor) ==
    /\ ~ExceedsOne(factor.e2 - 2, factor.e5)
    /\ ~ExceedsOne(-2 - factor.e2, -factor.e5)
    /\ (factor.e2 = 2 /\ factor.e5 = 0) => factor.drift <= 0
    /\ (factor.e2 = -2 /\ factor.e5 = 0) => factor.drift >= 0

\* the sockets whose intervals are running
Ticking == {s \in Sockets : timers[s] # NoTimers}

\* C19: after any sequence of up and down keys speedFactor is within
\* [0.25, 4.0]: up multiplies it by 1.25 and caps it at 4.0, down multiplies
\* it by 0.8 and floors it at 0.25; and the periods of the GGA and BESTPOS
\* timers of every client are round(base interval / speedFactor) for the
\* speedFactor of the moment.
C19_SpeedBounds ==
    /\ [](WithinLimits(speedFactor))
    /\ [](\A s \in Sockets :
            /\ (IsConnected(s) /\ s \notin errored) => s \in Ticking
            /\ s \in Ticking =>
                  /\ timers[s].gga = RoundedInterval(GGA_UPDATE_INTERVAL, speedFactor)
                  /\ timers[s].bestpos
                         = RoundedInterval(BESTPOS_UPDATE_INTERVAL, speedFactor))
    /\ [][lastEvent'.kind = "up" =>
            LET e2 == speedFactor.e2 - 2
                e5 == speedFactor.e5 + 1
            IN  IF ExceedsOne(e2 - 2, e5) THEN speedFactor' = MAX_SPEED_FACTOR
                ELSE \/ speedFactor'.e2 = e2 /\ speedFactor'.e5 = e5
                     \/ e2 = 2 /\ e5 = 0 /\ speedFactor' = MAX_SPEED_FACTOR
         ]_vars
    /\ [][lastEvent'.kind = "down" =>
            LET e2 == speedFactor.e2 + 2
                e5 == speedFactor.e5 - 1
            IN  IF ExceedsOne(-2 - e2, -e5) THEN speedFactor' = MIN_SPEED_FACTOR
                ELSE \/ speedFactor'.e2 = e2 /\ speedFactor'.e5 = e5
                     \/ e2 = -2 /\ e5 = 0 /\ speedFactor' = MIN_SPEED_FACTOR
         ]_vars
    /\ [][speedFactor' # speedFactor => lastEvent'.kind \in SpeedKeys]_vars

\* after a speed key two clients tick at the same periods, which are no
\* whole quotients: the factor is a power of 1.25 between 1 and 4
C19_Witness ==
    /\ Len(connectedSockets) = 2 /\ Ticking = Sockets
    /\ lastEvent.kind \in SpeedKeys
    /\ speedFactor.e5 \in 1..6 /\ speedFactor.e2 = -2 * speedFactor.e5
    /\ timers[1] = timers[2]
    /\ timers[1].gga * Pow(5, speedFactor.e5) # GGA_UPDATE_INTERVAL * Pow(2, -speedFactor.e2)

(***************************************************************************)
(* C20                                                                     *)
(***************************************************************************)
\* C20: when the scalar path emits a sample for a u8, u16 or u32 field, the
\* bytes read for it, as many as the type is wide from offset
\* 16 + byteOffsets[0], all lie below the length of the row; a field whose
\* span of that width does not fit in the row emits no sample.
C20_ScalarReadsInsideRow ==
    Decoded =>
        \A k \in DOMAIN fieldConfigs :
            LET f == fieldConfigs[k]
            IN  (/\ ~UsesBits(f)
                 /\ ScalarWidth(f.type) > 0
                 /\ Len(EmittedBy(k)) >= 1)
                    => 16 + f.bytes[1] + ScalarWidth(f.type) <= RowLength

(***************************************************************************)
(* C21                                                                     *)
(***************************************************************************)
\* a byte offset of f lies at or beyond the end of the row
SomeByteBeyondRow(f) == \E b \in DOMAIN f.bytes : 16 + f.bytes[b] >= RowLength

\* C21: a bit-packed field one of whose byte offsets lies at or beyond the
\* end of the row emits no sample at all, not even for the bit-subfields of
\* the bytes that are inside the row; no error leaves the row, and the
\* other fields of the row emit what they emit without the field.
C21_BitAbortAllOrNothing ==
    /\ pc # "threw"
    /\ Decoded =>
          \A k \in DOMAIN fieldConfigs :
              (UsesBits(fieldConfigs[k]) /\ SomeByteBeyondRow(fieldConfigs[k])) =>
                  /\ EmittedBy(k) = <<>>
                  /\ rowOut = ParseFrom(sharedUint8View, RowLength,
                                        RemoveAt(fieldConfigs, k), StringToNumber(row.date),
                                        messageIdStr, deviceName, messageIdHex, 1)

\* a bit-packed field whose first byte is inside the row and whose last is
\* not emitted nothing, and a field after it emitted its sample
C21_Witness ==
    /\ Decoded
    /\ \E k \in DOMAIN fieldConfigs :
          /\ UsesBits(fieldConfigs[k])
          /\ Len(fieldConfigs[k].bytes) >= 2
          /\ 16 + fieldConfigs[k].bytes[1] < RowLength
          /\ SomeByteBeyondRow(fieldConfigs[k])
          /\ EmittedBy(k) = <<>>
          /\ \E later \in DOMAIN fieldConfigs : later > k /\ Len(EmittedBy(later)) = 1

(***************************************************************************)
(* C22                                                                     *)
(***************************************************************************)
\* the dependency of f names a byte at or beyond the end of the row, or a
\* bit index outside 0..7
DependencyOutOfRange(f) ==
    /\ f.dependent_on # <<>>
    /\ \/ 16 + f.dependent_on[1].byte >= RowLength
       \/ f.dependent_on[1].bit < 0
       \/ f.dependent_on[1].bit > 7

\* C22: a field whose dependency byte lies at or beyond the end of the row,
\* or whose dependency bit index is outside 0..7, keeps its label unsplit
\* and is decoded as it is without the dependency: a scalar field inside the
\* row emits its one sample, with the label of the descriptor.
C22_DependencyOutOfRange ==
    Decoded =>
        \A k \in DOMAIN fieldConfigs :
            LET f == fieldConfigs[k]
            IN  DependencyOutOfRange(f) =>
                    /\ EmittedBy(k) = FieldOut([f EXCEPT !.dependent_on = <<>>])
                    /\ \A j \in DOMAIN EmittedBy(k) :
                          EmittedBy(k)[j].label
                              = IF UsesBits(f)
                                THEN RowMessageIdentity \o <<"_">> \o f.label \o <<"_">>
                                         \o f.bits.items[j].Name
                                ELSE f.label
                    /\ (~UsesBits(f) /\ ScalarWidth(f.type) > 0 /\ AllInRow(f)
                            /\ 16 + f.bytes[1] + Len(f.bytes) <= RowLength)
                          => Len(EmittedBy(k)) = 1

\* a field labelled "A | B" whose dependency byte is beyond the row, or
\* whose dependency bit index is 8, emitted its value under the whole label
C22_Witness ==
    /\ Decoded
    /\ \E k \in DOMAIN fieldConfigs :
          /\ DependencyOutOfRange(fieldConfigs[k])
          /\ Len(Split(fieldConfigs[k].label, LabelSeparator)) = 2
          /\ Len(EmittedBy(k)) = 1
          /\ EmittedBy(k)[1].label = fieldConfigs[k].label
          /\ \/ 16 + fieldConfigs[k].dependent_on[1].byte >= RowLength
             \/ (fieldConfigs[k].dependent_on[1].bit = 8 /\ ValueOf(EmittedBy(k)[1]).n.lo > 0)

(***************************************************************************)
(* C23                                                                     *)
(***************************************************************************)
\* the number n (16-bit halves, not negative) times num / den is a whole
\* number of thousandths: n * num * 1000 is a multiple of den
WholeThousandths(n, times) ==
    (((n.hi % times.den) * (65536 % times.den) + (n.lo % times.den))
         * ((times.num * 1000) % times.den)) % times.den = 0

\* C23: the value a scalar field emits is round-to-3-decimals of the raw
\* value times the multiplier: it is a whole number of thousandths, and
\* with the multiplier 1.0 it is the raw value.  (The raw value of the
\* integer types is whole, so the emitted product is its own rounding
\* exactly when it is a whole number of thousandths.)
C23_RoundingLast ==
    Decoded =>
        \A k \in DOMAIN fieldConfigs :
            LET f == fieldConfigs[k]
            IN  (~UsesBits(f) /\ Len(EmittedBy(k)) = 1) =>
                    LET v == ValueOf(EmittedBy(k)[1])
                    IN  /\ v.n.hi >= 0 => WholeThousandths(v.n, v.times)
                        /\ f.multiplier = One => v.times = One

(***************************************************************************)
(* C24                                                                     *)
(***************************************************************************)
\* the byte of the row at the n-th listed offset of f (1-based), 0 past the list
ListedByte(f, n) == IF n <= Len(f.bytes) THEN RowByte(16 + f.bytes[n]) ELSE 0

\* the sum over i of byte[16 + byteOffsets[i]] * 256^i for up to four listed
\* offsets, as 16-bit halves
ListedLittleEndian(f) ==
    [hi |-> ListedByte(f, 3) + 256 * ListedByte(f, 4),
     lo |-> ListedByte(f, 1) + 256 * ListedByte(f, 2)]

\* C24: a u16 or u32 scalar field whose byte offsets are not contiguous
\* emits the little-endian accumulation of the bytes at the listed offsets,
\* not the contiguous read that starts at the first offset.
C24_NonContiguousScalar ==
    Decoded =>
        \A k \in DOMAIN fieldConfigs :
            LET f == fieldConfigs[k]
            IN  (/\ ~UsesBits(f)
                 /\ f.type \in {"uint16_t", "uint32_t"}
                 /\ Len(f.bytes) <= 4
                 /\ ~Contiguous(f.bytes)
                 /\ AllInRow(f)
                 /\ Len(EmittedBy(k)) = 1)
                    => ValueOf(EmittedBy(k)[1]).n = ListedLittleEndian(f)

(***************************************************************************)
(* C25                                                                     *)
(***************************************************************************)
\* the n-th 16-bit word (0..3) of the eight bytes of the row that f lists
ListedWord(f, n) == ListedByte(f, 2 * n + 1) + 256 * ListedByte(f, 2 * n + 2)

\* the eight bytes encode a value below 2^53
BelowPrecisionLimit(f) == ListedWord(f, 3) < 32

\* C25: a u64 field whose eight bytes are inside the row and encode a value
\* below 2^53 emits that unsigned little-endian integer, which is not
\* negative.
C25_Uint64Exact ==
    Decoded =>
        \A k \in DOMAIN fieldConfigs :
            LET f == fieldConfigs[k]
            IN  (/\ ~UsesBits(f)
                 /\ f.type = "uint64_t"
                 /\ Len(f.bytes) = 8
                 /\ AllInRow(f)
                 /\ BelowPrecisionLimit(f))
                    => /\ Len(EmittedBy(k)) = 1
                       /\ LET v == ValueOf(EmittedBy(k)[1]).n
                          IN  /\ v.hi >= 0
                              /\ v.lo = ListedWord(f, 0)
                              /\ v.hi % 65536 = ListedWord(f, 1)
                              /\ v.hi \div 65536 = ListedWord(f, 2) + 65536 * ListedWord(f, 3)

(***************************************************************************)
(* C26                                                                     *)
(***************************************************************************)
\* C26: at most one call of transformUDPLogToTimeSeries is in flight on the
\* module-level buffer, however its callers take turns; the buffer is
\* written only by the row step of that call, with the bytes of its row,
\* and the fields of the row are decoded from the buffer as that copy left
\* it: no other row's bytes are written between the copy and the reads.
C26_ExclusiveBuffer ==
    /\ [](Cardinality(inFlight) <= 1)
    /\ [](pc = "loop" <=> inFlight # {})
    /\ [][inFlight' # inFlight =>
            \/ inFlight = {} /\ Cardinality(inFlight') = 1
            \/ inFlight' = {}]_vars
    /\ [][sharedUint8View' # sharedUint8View =>
            /\ Cardinality(inFlight) = 1
            /\ inFlight' \subseteq inFlight
            /\ handled' = handled + 1
            /\ sharedUint8View' = TypedArraySet(sharedUint8View, row'.log)]_vars
    /\ [][(handled' = handled + 1 /\ status' = "decoded") =>
            rowOut' = ParseFrom(TypedArraySet(sharedUint8View, row'.log), row'.log.length,
                                fieldConfigs', StringToNumber(row'.date), messageIdStr',
                                deviceName', messageIdHex', 1)]_vars

\* the second caller is inside a call that decoded a row on the buffer an
\* earlier call had written
C26_Witness ==
    /\ inFlight = {2}
    /\ Decoded
    /\ rowOut # <<>>
    /\ handled = 2 /\ i = 1

(***************************************************************************)
(* C27                                                                     *)
(***************************************************************************)
IndexInTrack == 0 <= currentIndex /\ currentIndex < Len(coordinates)

\* C27: after a successful loadGeoJSON, whatever the geometry and whatever
\* was loaded and called before, 0 <= currentIndex < coordinates.length;
\* getNextPosition keeps it so, and with it reads an existing coordinate.
C27_IndexInTrack ==
    /\ []((lastEvent.kind \in {"main", "loadGeoJSON"} /\ ~lastEvent.threw) => IndexInTrack)
    /\ [][(IndexInTrack /\ lastEvent'.kind = "getNextPosition") =>
             (IndexInTrack' /\ ~lastEvent'.threw)]_vars

(***************************************************************************)
(* C28                                                                     *)
(***************************************************************************)
\* C28: a loadGeoJSON that throws leaves the coordinates and the index as
\* they were before the call.
C28_FailedLoadKeepsState ==
    [][(lastEvent'.kind \in {"main", "loadGeoJSON"} /\ lastEvent'.threw) =>
          (coordinates' = coordinates /\ currentIndex' = currentIndex)]_vars

(***************************************************************************)
(* C29                                                                     *)
(***************************************************************************)
\* C29: under every interleaving of connections, speed keys, "error" and
\* "close" events, a socket that has emitted "error" or "close" has no
\* armed interval (each socket holds at most one interval of a kind: timers
\* keeps one period per kind, as updateIntervals clears before it sets).
C29_NoTimerAfterEnd ==
    \A s \in Sockets : (s \in errored \/ ~IsConnected(s)) => timers[s] = NoTimers

(***************************************************************************)
(* C30                                                                     *)
(***************************************************************************)
\* C30: a field whose list of bytes is empty emits no sample, on the scalar
\* path and on the path through `bits`, whatever the length of the row.
C30_EmptyBytesEmitNothing ==
    Decoded =>
        \A k \in DOMAIN fieldConfigs :
            Len(fieldConfigs[k].bytes) = 0 => EmittedBy(k) = <<>>
====
